---- MODULE Spec2Model ----
(***************************************************************************)
(* A model of the football-gossip-bot repository: the follow tracker bot   *)
(* (main.py, tracker.py, drama_scorer.py, tweet_generator.py), the history *)
(* bot (main_history.py, history_fetcher.py, history_converter.py) and the *)
(* news bot (main_rss.py, rss_reader.py, news_converter.py).               *)
(*                                                                         *)
(* Python strings are TLA+ strings with one character per code point; a    *)
(* code point outside ASCII (an emoji, an accented letter) is written "^", *)
(* which keeps every len() of the source.                                  *)
(***************************************************************************)
EXTENDS Integers, FiniteSets, Sequences, TLC

VARIABLES
    \* DramaScorer.calculate_score applied to one input
    change,          \* the change dict handed to calculate_score
    athlete,         \* the athlete dict handed to calculate_score
    score,           \* <<>> before the call, <<result>> after it
    \* a function of the bots (a renderer, a selector, a detector, a fetch)
    \* applied to one input
    job,             \* the function called and its argument
    draws,           \* the random draws of the call, <<>> before it
    rendered,        \* NotRendered before the call, the result after it
    \* the process that runs
    bot,             \* "tracker" (main.py), "history" (main_history.py) or
                     \* "news" (main_rss.py)
    AUTO_TWEET,      \* config.AUTO_TWEET
    MIN_DRAMA_SCORE, \* config.MIN_DRAMA_SCORE
    client,          \* TRUE when the credentials gave a Twitter client
    loop,            \* the scheduling loop of run(): "running", or how it
                     \* ended
    \* FootballGossipBot
    following_cache, \* FollowTracker.following_cache
    next_athlete,    \* how many athletes the running check_and_tweet has done
    checked,         \* what the latest check of an athlete did
    \* Database (database.py) and the clocks it is used with
    changes_table,   \* the rows of the changes table, in the order of their ids
    now,             \* the time in UTC, in hours since the bot started
    utc_offset,      \* local time minus UTC, in hours
    lookup,          \* the latest check_duplicate call and its result
    \* HistoryBot and FootballNewsBot
    clock,           \* the local time: [date, minute of the day]
    daily_tweet_count,
    last_reset,
    posted_events,   \* HistoryFetcher.posted_events
    posted_articles, \* RSSReader.posted_articles
    tweets,          \* the number of rows of the tweets table
    db_faults,       \* how many writes to the store have raised
    last,            \* what the latest tick did
    confirmed,       \* the identities post_tweet returned True for
    published_on,    \* per date, how often post_tweet returned True
    restarts         \* how often the process was started again

scoreVars == <<change, athlete, score>>
renderVars == <<job, draws, rendered>>
configVars == <<bot, AUTO_TWEET, MIN_DRAMA_SCORE, client>>
runVars == <<configVars, loop>>
storeVars == <<changes_table, now, utc_offset, lookup>>
trackVars == <<following_cache, next_athlete, checked, storeVars>>
feedVars == <<clock, daily_tweet_count, last_reset, posted_events,
              posted_articles, tweets, db_faults, last, confirmed,
              published_on, restarts>>
vars == <<scoreVars, renderVars, runVars, trackVars, feedVars>>

\* The values of the variables a specification does not use.
ScoreIdle == change = <<>> /\ athlete = <<>> /\ score = <<>>
NotRendered == [stage |-> "none"]
RenderIdle == job = <<>> /\ draws = <<>> /\ rendered = NotRendered
ConfigIdle ==
    /\ bot = "none" /\ AUTO_TWEET = FALSE /\ MIN_DRAMA_SCORE = 0
    /\ client = FALSE /\ loop = "none"
NoCheck == [result |-> "none"]
NoLookup == [called |-> FALSE]
StoreIdle ==
    changes_table = <<>> /\ now = 0 /\ utc_offset = 0 /\ lookup = NoLookup
TrackIdle ==
    /\ following_cache = <<>> /\ next_athlete = 0 /\ checked = NoCheck
    /\ StoreIdle
NoTick == [outcome |-> "none"]
FeedIdle ==
    /\ clock = <<>> /\ daily_tweet_count = 0 /\ last_reset = 0
    /\ posted_events = {} /\ posted_articles = {} /\ tweets = 0
    /\ db_faults = 0 /\ last = NoTick /\ confirmed = {}
    /\ published_on = <<>> /\ restarts = 0

(***************************************************************************)
(* Python values                                                           *)
(***************************************************************************)

Min(a, b) == IF a <= b THEN a ELSE b

\* dict.get(key, default)
Get(d, key, default) == IF key \in DOMAIN d THEN d[key] ELSE default

\* The result of a call: a returned value or a raised exception.
Return(v) == [exc |-> "none", val |-> <<v>>]
Raise(e) == [exc |-> e, val |-> <<>>]

\* A field that may hold None is a sequence: <<>> is None and <<n>> is the
\* number n.
None == <<>>
Num(n) == <<n>>

\* The lower-case form of each ASCII capital.
lower_case ==
    [c \in {"A", "B", "C", "D", "E", "F", "G", "H", "I", "J", "K", "L", "M",
            "N", "O", "P", "Q", "R", "S", "T", "U", "V", "W", "X", "Y", "Z"} |->
        CASE c = "A" -> "a" [] c = "B" -> "b" [] c = "C" -> "c"
          [] c = "D" -> "d" [] c = "E" -> "e" [] c = "F" -> "f"
          [] c = "G" -> "g" [] c = "H" -> "h" [] c = "I" -> "i"
          [] c = "J" -> "j" [] c = "K" -> "k" [] c = "L" -> "l"
          [] c = "M" -> "m" [] c = "N" -> "n" [] c = "O" -> "o"
          [] c = "P" -> "p" [] c = "Q" -> "q" [] c = "R" -> "r"
          [] c = "S" -> "s" [] c = "T" -> "t" [] c = "U" -> "u"
          [] c = "V" -> "v" [] c = "W" -> "w" [] c = "X" -> "x"
          [] c = "Y" -> "y" [] c = "Z" -> "z"]

\* str.lower() on one character ("^" and the rest map to themselves).
LowerChar(c) == IF c \in DOMAIN lower_case THEN lower_case[c] ELSE c

\* str.lower()
RECURSIVE Lower(_)
Lower(s) ==
    IF Len(s) = 0 THEN ""
    ELSE IF Len(s) = 1 THEN LowerChar(s)
    ELSE Lower(SubSeq(s, 1, Len(s) \div 2))
         \o Lower(SubSeq(s, Len(s) \div 2 + 1, Len(s)))

\* needle in hay
Contains(hay, needle) ==
    \E i \in 1..(Len(hay) - Len(needle) + 1) :
        SubSeq(hay, i, i + Len(needle) - 1) = needle

\* any(keyword.lower() in name.lower() for keyword in keywords), with the
\* keywords already in lower case.
AnyLowerKeywordIn(keywords_lower, name) ==
    \E name_lower \in {Lower(name)} :
        \E k \in 1..Len(keywords_lower) :
            Contains(name_lower, keywords_lower[k])

(***************************************************************************)
(* Python string operations                                                *)
(***************************************************************************)

\* s[:n]
Prefix(s, n) == SubSeq(s, 1, Min(n, Len(s)))

\* s[n:] for n >= 0
DropPrefix(s, n) == SubSeq(s, n + 1, Len(s))

\* sep.join(items)
RECURSIVE Join(_, _)
Join(sep, items) ==
    IF Len(items) = 0 THEN ""
    ELSE IF Len(items) = 1 THEN items[1]
    ELSE items[1] \o sep \o Join(sep, Tail(items))

\* The least element of a set of numbers, or 0 when it is empty.
First(I) == IF I = {} THEN 0 ELSE CHOOSE i \in I : \A j \in I : i <= j

\* s.find(pat) + 1: the index of the first occurrence of pat in s, or 0
Find(s, pat) ==
    First({i \in 1..(Len(s) - Len(pat) + 1) :
              SubSeq(s, i, i + Len(pat) - 1) = pat})

\* s.replace(pat, "") for a non-empty pat
RECURSIVE Remove(_, _)
Remove(s, pat) ==
    IF Find(s, pat) = 0 THEN s
    ELSE SubSeq(s, 1, Find(s, pat) - 1)
         \o Remove(DropPrefix(s, Find(s, pat) + Len(pat) - 1), pat)

\* The characters str.strip() removes.
Whitespace == {" ", "\n", "\t", "\r", "\f"}

\* s.strip()
Strip(s) ==
    LET first == First({i \in 1..Len(s) : SubSeq(s, i, i) \notin Whitespace})
        back == First({k \in 1..Len(s) :
                         SubSeq(s, Len(s) + 1 - k, Len(s) + 1 - k)
                             \notin Whitespace})
    IN  IF first = 0 THEN "" ELSE SubSeq(s, first, Len(s) + 1 - back)

\* Where the pattern open .*? close first matches in s, as <<start, end>>,
\* or <<>>: the lazy ".*?" stops at the first close, and "." matches no
\* newline.
LazyMatch(s, open, close) ==
    LET stop(i) == First({j \in (i + 1)..Len(s) :
                            SubSeq(s, j, j) \in {close, "\n"}})
        start == First({i \in 1..Len(s) :
                          /\ SubSeq(s, i, i) = open
                          /\ stop(i) > 0
                          /\ SubSeq(s, stop(i), stop(i)) = close})
    IN  IF start = 0 THEN <<>> ELSE <<start, stop(start)>>

\* re.sub(open .*? close, "", s)
RECURSIVE RemoveDelimited(_, _, _)
RemoveDelimited(s, open, close) ==
    LET m == LazyMatch(s, open, close)
    IN  IF m = <<>> THEN s
        ELSE SubSeq(s, 1, m[1] - 1)
             \o RemoveDelimited(DropPrefix(s, m[2]), open, close)

\* One decimal digit.
Digit(d) == SubSeq("0123456789", d + 1, d + 1)

RECURSIVE NatStr(_)
NatStr(n) == IF n < 10 THEN Digit(n) ELSE NatStr(n \div 10) \o Digit(n % 10)

\* str(n)
Str(n) == IF n < 0 THEN "-" \o NatStr(-n) ELSE NatStr(n)

\* random.choice(items) when the generator draws r
Choice(items, r) == items[(r % Len(items)) + 1]

\* template.format(**kw): a template is the sequence of its literal parts
\* and its replacement fields.
RECURSIVE Format(_, _)
Format(template, kw) ==
    IF Len(template) = 0 THEN ""
    ELSE (IF template[1][1] = "lit" THEN template[1][2] ELSE kw[template[1][2]])
         \o Format(Tail(template), kw)

\* n times "x"
RECURSIVE Filler(_)
Filler(n) ==
    IF n <= 0 THEN ""
    ELSE IF n % 2 = 1 THEN "x" \o Filler(n - 1)
    ELSE Filler(n \div 2) \o Filler(n \div 2)

\* A text of n characters that starts with s (n >= Len(s)).
Pad(s, n) == s \o Filler(n - Len(s))

(***************************************************************************)
(* drama_scorer.py                                                         *)
(***************************************************************************)

\* DramaScorer.rivalries
rivalries ==
    [t \in {"Real Madrid", "Barcelona", "Manchester United", "Manchester City",
            "Liverpool", "Arsenal", "Tottenham", "AC Milan", "Inter Milan",
            "Juventus", "Paris Saint-Germain", "Bayern Munich",
            "Borussia Dortmund"} |->
        CASE t = "Real Madrid" -> <<"Barcelona", "Atletico Madrid">>
          [] t = "Barcelona" -> <<"Real Madrid">>
          [] t = "Manchester United" -> <<"Manchester City", "Liverpool">>
          [] t = "Manchester City" -> <<"Manchester United", "Liverpool">>
          [] t = "Liverpool" -> <<"Manchester United", "Manchester City", "Everton">>
          [] t = "Arsenal" -> <<"Tottenham">>
          [] t = "Tottenham" -> <<"Arsenal">>
          [] t = "AC Milan" -> <<"Inter Milan">>
          [] t = "Inter Milan" -> <<"AC Milan">>
          [] t = "Juventus" -> <<"Inter Milan", "AC Milan">>
          [] t = "Paris Saint-Germain" -> <<"Marseille">>
          [] t = "Bayern Munich" -> <<"Borussia Dortmund">>
          [] t = "Borussia Dortmund" -> <<"Bayern Munich">>]

\* DramaScorer.superstar_keywords
superstar_keywords ==
    <<"Ronaldo", "Messi", "Neymar", "Mbapp^", "Haaland", "Salah", "Kane",
      "Benzema", "Lewandowski", "De Bruyne", "Vinicius", "Bellingham", "Pele",
      "Maradona">>

\* DramaScorer.controversial_keywords
controversial_keywords ==
    <<"Piers Morgan", "Joey Barton", "Zlatan", "Mourinho", "Roy Keane",
      "Cristiano", "Tebas", "FIFA", "UEFA">>

\* keyword.lower() and rival.lower() for each keyword and each rival
lowered ==
    [superstar |-> [k \in DOMAIN superstar_keywords |->
                       Lower(superstar_keywords[k])],
     controversial |-> [k \in DOMAIN controversial_keywords |->
                           Lower(controversial_keywords[k])],
     rivalries |-> [t \in DOMAIN rivalries |->
                       [k \in DOMAIN rivalries[t] |-> Lower(rivalries[t][k])]]]

\* DramaScorer._is_superstar
is_superstar(name) == AnyLowerKeywordIn(lowered.superstar, name)

\* DramaScorer._is_controversial
is_controversial(name) == AnyLowerKeywordIn(lowered.controversial, name)

\* DramaScorer._is_rivalry
is_rivalry(ath, target_name) ==
    LET athlete_team == Get(ath, "team", "")
    IN  /\ athlete_team \in DOMAIN rivalries
        /\ AnyLowerKeywordIn(lowered.rivalries[athlete_team], target_name)

\* The popularity tier with ">=" in place of ">"
PopularityBonus_Inclusive(target_followers) ==
    IF target_followers >= 10000000 THEN 25
    ELSE IF target_followers >= 1000000 THEN 15
    ELSE IF target_followers >= 100000 THEN 10
    ELSE 5

\* The popularity tier of calculate_score: an if/elif chain on strict ">".
PopularityBonus(target_followers) ==
    IF target_followers > 10000000 THEN 25
    ELSE IF target_followers > 1000000 THEN 15
    ELSE IF target_followers > 100000 THEN 10
    ELSE 5

\* A mutant of RivalryUnfollowBonus: the extra bonus no longer asks for an
\* unfollow.
RivalryUnfollowBonus_AnyType(change_type, rival) == IF rival THEN 20 ELSE 0

\* "Unfollow + rivalry = mega drama": the extra bonus of calculate_score.
RivalryUnfollowBonus(change_type, rival) ==
    IF change_type = "unfollow" /\ rival THEN 20 ELSE 0

\* A mutant of CapScore: the cap is left out.
CapScore_Missing(s) == s

\* "Cap at 100": score = min(score, 100)
CapScore(s) == Min(s, 100)

\* DramaScorer.calculate_score: the score is accumulated statement by
\* statement as in the source; a missing key raises KeyError, a None
\* follower count raises TypeError at the first comparison.
calculate_score(chg, ath) ==
    IF \E k \in {"type", "target_name", "target_handle", "athlete"} :
            k \notin DOMAIN chg
    THEN Raise("KeyError")
    ELSE
    LET change_type == chg["type"]
        target_name == chg["target_name"]
        target_followers == Get(chg, "target_followers", Num(0))
        athlete_name == chg["athlete"]
        s0 == 0
        s1 == IF change_type = "unfollow" THEN s0 + 40 ELSE s0 + 20
    IN  IF target_followers = None THEN Raise("TypeError")
        ELSE
        LET s2 == s1 + PopularityBonus(target_followers[1])
            s3 == IF is_superstar(athlete_name) THEN s2 + 15 ELSE s2
            s4 == IF is_superstar(target_name) THEN s3 + 15 ELSE s3
            s5 == IF is_rivalry(ath, target_name) THEN s4 + 40 ELSE s4
            s6 == IF is_controversial(target_name) THEN s5 + 30 ELSE s5
            s7 == s6 + RivalryUnfollowBonus(change_type,
                                            is_rivalry(ath, target_name))
        IN  Return(CapScore(s7))

(***************************************************************************)
(* news_converter.py                                                       *)
(***************************************************************************)

\* NewsToTweetConverter.breaking_templates
breaking_templates ==
    <<<<<<"lit", "^ BREAKING NEWS!\n\n">>,
        <<"ph", "title">>,
        <<"lit", "\n\n">>,
        <<"ph", "context">>,
        <<"lit", "\n\n">>,
        <<"ph", "hook">>>>,
      <<<<"lit", "^ JUST IN: ">>,
          <<"ph", "title">>,
          <<"lit", "\n\n">>,
          <<"ph", "detail">>,
          <<"lit", "\n\n">>,
          <<"ph", "reaction">>>>,
      <<<<"lit", "^ HUGE DEVELOPMENT!\n\n">>,
          <<"ph", "title">>,
          <<"lit", "\n\n">>,
          <<"ph", "insight">>,
          <<"lit", "\n\n">>,
          <<"ph", "commentary">>>>,
      <<<<"lit", "^ You won't believe this...\n\n">>,
          <<"ph", "title">>,
          <<"lit", "\n\n">>,
          <<"ph", "opinion">>,
          <<"lit", "\n\n">>,
          <<"ph", "question">>>>,
      <<<<"lit", "^ MASSIVE: ">>,
          <<"ph", "title">>,
          <<"lit", "\n\n">>,
          <<"ph", "extra">>,
          <<"lit", "\n\n">>,
          <<"ph", "drama">>>>,
      <<<<"lit", "^ LATEST: ">>,
          <<"ph", "title">>,
          <<"lit", "\n\n">>,
          <<"ph", "background">>,
          <<"lit", "\n\n">>,
          <<"ph", "hook">>>>>>

\* NewsToTweetConverter.transfer_templates
transfer_templates ==
    <<<<<<"lit", "^ TRANSFER ALERT!\n\n">>,
        <<"ph", "title">>,
        <<"lit", "\n\n">>,
        <<"ph", "rumor">>,
        <<"lit", "\n\n">>,
        <<"ph", "speculation">>>>,
      <<<<"lit", "^ BIG MONEY MOVE?\n\n">>,
          <<"ph", "title">>,
          <<"lit", "\n\n">>,
          <<"ph", "details">>,
          <<"lit", "\n\n">>,
          <<"ph", "question">>>>,
      <<<<"lit", "^^ HERE WE GO? ">>,
          <<"ph", "title">>,
          <<"lit", "\n\n">>,
          <<"ph", "status">>,
          <<"lit", "\n\n">>,
          <<"ph", "excitement">>>>,
      <<<<"lit", "^ CONTRACT TALK: ">>,
          <<"ph", "title">>,
          <<"lit", "\n\n">>,
          <<"ph", "figures">>,
          <<"lit", "\n\n">>,
          <<"ph", "question">>>>>>

\* NewsToTweetConverter.match_templates
match_templates ==
    <<<<<<"lit", "^ MATCH REPORT!\n\n">>,
        <<"ph", "title">>,
        <<"lit", "\n\n">>,
        <<"ph", "highlights">>,
        <<"lit", "\n\n">>,
        <<"ph", "reaction">>>>,
      <<<<"lit", "^ WHAT A GAME!\n\n">>,
          <<"ph", "title">>,
          <<"lit", "\n\n">>,
          <<"ph", "stats">>,
          <<"lit", "\n\n">>,
          <<"ph", "celebration">>>>,
      <<<<"lit", "^ UNBELIEVABLE!\n\n">>,
          <<"ph", "title">>,
          <<"lit", "\n\n">>,
          <<"ph", "context">>,
          <<"lit", "\n\n">>,
          <<"ph", "shock">>>>,
      <<<<"lit", "^ FINAL SCORE: ">>,
          <<"ph", "title">>,
          <<"lit", "\n\n">>,
          <<"ph", "summary">>,
          <<"lit", "\n\n">>,
          <<"ph", "reaction">>>>>>

\* NewsToTweetConverter.hooks
hooks ==
    <<"This is absolutely massive! ^",
      "Football Twitter is going to explode! ^",
      "Nobody saw this coming! ^",
      "What a turn of events! ^^",
      "The drama never stops in football! ^",
      "This could change everything! ^",
      "Incredible scenes! ^">>

\* NewsToTweetConverter.reactions
reactions ==
    <<"What are your thoughts on this? ^",
      "Drop your reaction below! ^",
      "Who predicted this? ^^^^",
      "This changes the whole landscape! ^",
      "Absolute scenes! ^",
      "Is this really happening? ^",
      "Game changer alert! ^">>

\* NewsToTweetConverter.questions
questions ==
    <<"What do you make of this? ^",
      "Good move or disaster? ^",
      "Will this actually happen? ^",
      "Your predictions below! ^",
      "Who's involved next? ^",
      "Rate this on a scale of 1-10! ^">>

\* NewsToTweetConverter.contexts
contexts ==
    <<"Sources close to the club confirm this developing story.",
      "This comes as a major surprise to fans and pundits alike.",
      "Breaking developments in the last hour suggest this is real.",
      "Multiple reliable sources are now reporting this.",
      "This has been rumored for weeks, now it's confirmed!">>

\* NewsToTweetConverter.details
details ==
    <<"According to reports from reliable insiders.",
      "This could reshape the entire season.",
      "Fans are already reacting massively online.",
      "The announcement has sent shockwaves through the sport.">>

\* NewsToTweetConverter.transfer_keywords
transfer_keywords ==
    <<"transfer",
      "deal",
      "bid",
      "sign",
      "contract",
      "move",
      "agree">>

\* NewsToTweetConverter.match_keywords
match_keywords ==
    <<"win",
      "lose",
      "goal",
      "score",
      "match",
      "game",
      "victory",
      "defeat">>

\* NewsToTweetConverter.drama_keywords
drama_keywords ==
    <<"sack",
      "fire",
      "leave",
      "quit",
      "row",
      "clash",
      "crisis",
      "emergency">>


\* NewsToTweetConverter._clean_title
clean_title(title) ==
    LET t1 == RemoveDelimited(title, "[", "]")
        t2 == RemoveDelimited(t1, "(", ")")
        t3 == Remove(Remove(Remove(Remove(t2, "LIVE:"), "BREAKING:"),
                            "UPDATE:"), "EXCLUSIVE:")
    IN  Strip(t3)

\* any(keyword in text for keyword in keywords)
AnyIn(keywords, text) == \E k \in 1..Len(keywords) : Contains(text, keywords[k])

\* NewsToTweetConverter._categorize_news
categorize_news(title, summary) ==
    LET text == Lower(title \o " " \o summary)
    IN  IF AnyIn(transfer_keywords, text) THEN "transfer"
        ELSE IF AnyIn(match_keywords, text) THEN "match"
        ELSE IF AnyIn(drama_keywords, text) THEN "drama"
        ELSE "general"

\* The teams list of NewsToTweetConverter._extract_teams
news_teams ==
    <<"Manchester United", "Manchester City", "Liverpool", "Chelsea",
      "Arsenal", "Tottenham", "Real Madrid", "Barcelona", "Bayern Munich",
      "PSG", "Juventus", "AC Milan", "Inter Milan", "Atletico Madrid">>

\* NewsToTweetConverter._extract_teams
extract_teams(text) ==
    LET text_lower == Lower(text)
    IN  SelectSeq(news_teams, LAMBDA team : Contains(text_lower, Lower(team)))

\* The star_players list of NewsToTweetConverter._add_smart_hashtags
star_players ==
    <<"Ronaldo", "Messi", "Haaland", "Mbappe", "Neymar", "Salah", "Kane">>

\* NewsToTweetConverter._add_smart_hashtags, the choice of the hashtags:
\* selected_tags
smart_hashtags(title, summary, category) ==
    LET text == Lower(title \o " " \o summary)
        teams == extract_teams(title)
        h1 == IF category = "transfer"
                 THEN <<"#TransferNews">> \o
                      (IF Contains(text, "rumor") \/ Contains(text, "rumour")
                       THEN <<"#TransferRumors">> ELSE <<>>)
              ELSE IF category = "match"
                 THEN <<"#MatchDay">> \o
                      (IF Contains(text, "goal") \/ Contains(text, "score")
                       THEN <<"#Goals">> ELSE <<>>)
              ELSE IF category = "drama" THEN <<"#FootballDrama">>
              ELSE <<>>
        found == SelectSeq(star_players, LAMBDA pl : Contains(text, Lower(pl)))
        h2 == IF Len(found) > 0 THEN h1 \o <<"#" \o found[1]>> ELSE h1
        team_tag == IF Len(teams) > 0 THEN "#" \o Remove(teams[1], " ") ELSE ""
        h3 == IF Len(teams) > 0 /\ Len(team_tag) < 20
              THEN h2 \o <<team_tag>> ELSE h2
        hashtags == IF Len(h3) = 0 THEN <<"#Football">> ELSE h3
    IN  SubSeq(hashtags, 1, Min(3, Len(hashtags)))

\* NewsToTweetConverter._add_smart_hashtags, the hashtags added: all of
\* them if they fit, else the first if it fits, else none.
add_smart_hashtags(tweet, selected_tags) ==
    LET hashtag_str == Join(" ", selected_tags)
    IN  IF Len(tweet) + Len(hashtag_str) + 2 <= 280
        THEN tweet \o "\n\n" \o hashtag_str
        ELSE IF Len(tweet) + Len(selected_tags[1]) + 2 <= 280
        THEN tweet \o "\n\n" \o selected_tags[1]
        ELSE tweet

\* A short form that keeps the headline twice: as its heading and as its
\* body.
shorten_tweet_TitleTwice(title, category, rnd) ==
    "^ " \o title \o "\n\n" \o title \o "\n\n" \o
        Choice(IF category = "transfer" THEN questions
               ELSE IF category = "match" THEN reactions ELSE hooks,
               rnd.short)

\* NewsToTweetConverter._shorten_tweet; rnd.short is the draw of its
\* random.choice.
shorten_tweet(title, category, rnd) ==
    IF category = "transfer"
    THEN "^ " \o title \o "\n\n" \o Choice(questions, rnd.short)
    ELSE IF category = "match"
    THEN "^ " \o title \o "\n\n" \o Choice(reactions, rnd.short)
    ELSE "^ " \o title \o "\n\n" \o Choice(hooks, rnd.short)

\* The keyword arguments of template.format in convert_to_tweet. Every
\* template has one field filled from contexts or details (drawn rnd.body)
\* and one filled from hooks, reactions or questions (drawn rnd.closer).
news_format_args(title, extra_context, rnd) ==
    [title |-> title,
     hook |-> Choice(hooks, rnd.closer),
     reaction |-> Choice(reactions, rnd.closer),
     question |-> Choice(questions, rnd.closer),
     commentary |-> Choice(hooks, rnd.closer),
     drama |-> Choice(hooks, rnd.closer),
     speculation |-> Choice(questions, rnd.closer),
     excitement |-> Choice(reactions, rnd.closer),
     celebration |-> Choice(reactions, rnd.closer),
     shock |-> Choice(hooks, rnd.closer),
     context |-> extra_context,
     detail |-> Choice(details, rnd.body),
     insight |-> Choice(contexts, rnd.body),
     opinion |-> Choice(details, rnd.body),
     extra |-> Choice(contexts, rnd.body),
     background |-> Choice(details, rnd.body),
     rumor |-> Choice(contexts, rnd.body),
     details |-> Choice(details, rnd.body),
     status |-> Choice(contexts, rnd.body),
     figures |-> Choice(details, rnd.body),
     highlights |-> Choice(details, rnd.body),
     stats |-> Choice(contexts, rnd.body),
     summary |-> Choice(details, rnd.body)]

\* The template list and the extra_context pool of each category.
news_templates(category) ==
    IF category = "transfer" THEN transfer_templates
    ELSE IF category = "match" THEN match_templates
    ELSE breaking_templates

news_extra_pool(category) ==
    IF category \in {"transfer", "drama"} THEN contexts ELSE details

\* convert_to_tweet, the part that draws nothing: the cleaned title, the
\* category and the hashtags _add_smart_hashtags will offer.
news_prepare(article) ==
    LET title == clean_title(Get(article, "title", ""))
        summary == Get(article, "summary", "")
        category == categorize_news(title, summary)
    IN  [title |-> title, category |-> category,
         selected_tags |-> smart_hashtags(title, summary, category)]

\* A mutant of news_final_trim: the cut keeps 280 characters before "...".
news_final_trim_Late(tweet) ==
    IF Len(tweet) > 280 THEN Prefix(tweet, 280) \o "..." ELSE tweet

\* "Final trim" of convert_to_tweet
news_final_trim(tweet) ==
    IF Len(tweet) > 280 THEN Prefix(tweet, 277) \o "..." ELSE tweet

\* convert_to_tweet, the part that draws: the template filled in and the
\* hashtags added (full), then _shorten_tweet if that is over 280 (short),
\* then the final trim. The value is the text returned with the texts of
\* the stages passed, and the title and category they were rendered from:
\* stage names the last stage that changed the text.
news_render(prepared, rnd) ==
    LET title == prepared.title
        category == prepared.category
        template == Choice(news_templates(category), rnd.template)
        extra_context == Choice(news_extra_pool(category), rnd.body)
        tweet == Format(template, news_format_args(title, extra_context, rnd))
        full == add_smart_hashtags(tweet, prepared.selected_tags)
        short == shorten_tweet(title, category, rnd)
    IN  IF Len(full) <= 280
        THEN [stage |-> "full", text |-> news_final_trim(full),
              full |-> full, title |-> title, category |-> category]
        ELSE [stage |-> IF Len(short) > 280 THEN "cut" ELSE "short",
              text |-> news_final_trim(short), full |-> full,
              short |-> short, title |-> title, category |-> category]

\* NewsToTweetConverter.convert_to_tweet
news_convert_to_tweet(article, rnd) ==
    news_render(news_prepare(article), rnd).text

(***************************************************************************)
(* tweet_generator.py: TweetGenerator.generate                             *)
(***************************************************************************)

\* TweetGenerator._generate_unfollow_tweet
unfollow_templates ==
    <<<<<<"lit", "^ JUST IN: ">>,
        <<"ph", "athlete">>,
        <<"lit", " just UNFOLLOWED ">>,
        <<"ph", "target">>,
        <<"lit", "!\n\nWhat happened? ^^">>>>,
      <<<<"lit", "^ DRAMA ALERT: ">>,
          <<"ph", "athlete">>,
          <<"lit", " has unfollowed ">>,
          <<"ph", "target">>,
          <<"lit", " (">>,
          <<"ph", "handle">>,
          <<"lit", ")\n\nTrouble in paradise? ^">>>>,
      <<<<"lit", "^ ">>,
          <<"ph", "athlete">>,
          <<"lit", " quietly unfollowed ">>,
          <<"ph", "target">>,
          <<"lit", "\n\nThe plot thickens... ^">>>>,
      <<<<"lit", "^ BREAKING: ">>,
          <<"ph", "athlete">>,
          <<"lit", " is no longer following ">>,
          <<"ph", "target">>,
          <<"lit", "\n\nSomething went down! ^">>>>,
      <<<<"lit", "^ ">>,
          <<"ph", "athlete">>,
          <<"lit", " unfollowed ">>,
          <<"ph", "target">>,
          <<"lit", "!\n\nWho else noticed this? ^^">>>>,
      <<<<"lit", "^ ">>,
          <<"ph", "athlete">>,
          <<"lit", " just hit the unfollow button on ">>,
          <<"ph", "target">>,
          <<"lit", "\n\nDrama incoming! ^^">>>>>>

\* TweetGenerator._generate_unfollow_tweet
unfollow_templates_high ==
    <<<<<<"lit", "^^^ MAJOR DRAMA: ">>,
        <<"ph", "athlete">>,
        <<"lit", " UNFOLLOWED ">>,
        <<"ph", "target">>,
        <<"lit", "!\n\nThis is HUGE! ^^^">>>>,
      <<<<"lit", "^ BOMBSHELL: ">>,
          <<"ph", "athlete">>,
          <<"lit", " just unfollowed ">>,
          <<"ph", "target">>,
          <<"lit", " (">>,
          <<"ph", "handle">>,
          <<"lit", ")\n\nFootball Twitter is NOT ready for this! ^">>>>>>

\* TweetGenerator._generate_follow_tweet
follow_templates ==
    <<<<<<"lit", "^ ">>,
        <<"ph", "athlete">>,
        <<"lit", " just followed ">>,
        <<"ph", "target">>,
        <<"lit", "!\n\nInteresting... ^">>>>,
      <<<<"lit", "^ ">>,
          <<"ph", "athlete">>,
          <<"lit", " started following ">>,
          <<"ph", "target">>,
          <<"lit", " (">>,
          <<"ph", "handle">>,
          <<"lit", ")\n\nNew bromance incoming? ^">>>>,
      <<<<"lit", "^ ">>,
          <<"ph", "athlete">>,
          <<"lit", " is now following ">>,
          <<"ph", "target">>,
          <<"lit", "\n\nTransfer hint? ^">>>>,
      <<<<"lit", "^ ">>,
          <<"ph", "athlete">>,
          <<"lit", " followed ">>,
          <<"ph", "target">>,
          <<"lit", "!\n\nWhat does this mean? ^">>>>,
      <<<<"lit", "^ ">>,
          <<"ph", "athlete">>,
          <<"lit", " just hit that follow button on ">>,
          <<"ph", "target">>,
          <<"lit", "\n\nSomething brewing? ^">>>>>>

\* TweetGenerator._generate_follow_tweet
follow_templates_high ==
    <<<<<<"lit", "^ ">>,
        <<"ph", "athlete">>,
        <<"lit", " just followed ">>,
        <<"ph", "target">>,
        <<"lit", "!\n\nThe GOATs recognizing GOATs ^^^">>>>,
      <<<<"lit", "^ HUGE: ">>,
          <<"ph", "athlete">>,
          <<"lit", " started following ">>,
          <<"ph", "target">>,
          <<"lit", " (">>,
          <<"ph", "handle">>,
          <<"lit", ")\n\nFootball fans, pay attention! ^">>>>>>

\* The templates list of _generate_unfollow_tweet and _generate_follow_tweet
\* for a drama score.
generate_templates(change_type, drama_score) ==
    IF change_type = "unfollow"
    THEN (IF drama_score > 70 THEN unfollow_templates_high
          ELSE unfollow_templates)
    ELSE (IF drama_score > 60 THEN follow_templates_high
          ELSE follow_templates)

\* athlete_tags of TweetGenerator._add_hashtags, in the order the dict lists
\* them: <<key, first tag>>.
athlete_tags ==
    <<<<"Cristiano Ronaldo", "CR7">>, <<"Lionel Messi", "Messi">>,
      <<"Kylian Mbapp^", "Mbappe">>, <<"Erling Haaland", "Haaland">>,
      <<"Neymar", "NeymarJr">>, <<"Mohamed Salah", "Salah">>>>

\* TweetGenerator._add_hashtags
add_hashtags(tweet, athlete_name, target_name) ==
    LET found == SelectSeq(athlete_tags,
                           LAMBDA kt : Contains(athlete_name, kt[1]))
        hashtags == (IF Len(found) > 0 THEN <<"#" \o found[1][2]>> ELSE <<>>)
                    \o <<"#FootballTwitter">>
        hashtag_str == Join(" ", SubSeq(hashtags, 1, Min(2, Len(hashtags))))
    IN  IF Len(tweet) + Len(hashtag_str) + 2 <= 280
        THEN tweet \o "\n\n" \o hashtag_str
        ELSE tweet

\* "Ensure it's under 280 characters" of generate
generate_trim(tweet) ==
    IF Len(tweet) > 280 THEN Prefix(tweet, 277) \o "..." ELSE tweet

\* TweetGenerator.generate with the text before the trim; rnd.template is
\* the draw of random.choice.
generate_render(chg, ath, rnd) ==
    LET change_type == chg["type"]
        athlete_name == chg["athlete"]
        target_name == chg["target_name"]
        target_handle == chg["target_handle"]
        drama_score == Get(chg, "drama_score", 0)
        template == Choice(generate_templates(change_type, drama_score),
                           rnd.template)
        tweet == Format(template, [athlete |-> athlete_name,
                                   target |-> target_name,
                                   handle |-> target_handle])
        full == add_hashtags(tweet, athlete_name, target_name)
    IN  [stage |-> IF Len(full) > 280 THEN "cut" ELSE "full",
         text |-> generate_trim(full), full |-> full]

\* TweetGenerator.generate
generate(chg, ath, rnd) == generate_render(chg, ath, rnd).text

(***************************************************************************)
(* history_converter.py                                                    *)
(***************************************************************************)

\* The year of an event dict is <<n>> for the number n and <<>> for the
\* string 'Unknown'.
Unknown == <<>>

\* The year of an event as an f-string or str.format prints it.
YearStr(year) == IF year = Unknown THEN "Unknown" ELSE Str(year[1])

\* HistoryToTweetConverter.template
history_template ==
    <<<<"ph", "emoji">>, <<"lit", " ">>, <<"ph", "year">>,
      <<"lit", " y^^l^^nda bug^^n:\n\n">>, <<"ph", "text">>>>

\* HistoryToTweetConverter.emoji_map
emoji_map ==
    [war |-> "^^^^^^", death |-> "^^^^^^^", disaster |-> "^^^^^^",
     politics |-> "^^^^^^^", science |-> "^^^^", space |-> "^^^^",
     religion |-> "^^^^^^", revolution |-> "^^^", explosion |-> "^^^^",
     default |-> "^^^^"]

\* HistoryToTweetConverter._select_emoji
select_emoji(text, event_type) ==
    LET text_lower == Lower(text)
    IN  IF AnyIn(<<"sava^^", "war", "battle", "^^arp^^^^ma", "muharebe">>,
                 text_lower)
        THEN emoji_map["war"]
        ELSE IF AnyIn(<<"^^ld^^", "died", "death", "^^l^^m", "^^ld^^r^^ld^^",
                        "idam", "infaz">>, text_lower)
        THEN emoji_map["death"]
        ELSE IF AnyIn(<<"deprem", "yang^^n", "patlama", "felaket", "katliam",
                        "disaster">>, text_lower)
        THEN emoji_map["disaster"]
        ELSE IF AnyIn(<<"devrim", "isyan", "ayaklanma", "darbe">>, text_lower)
        THEN emoji_map["revolution"]
        ELSE IF AnyIn(<<"kral", "sultan", "padi^^ah", "imparator", "meclis",
                        "ba^^kan">>, text_lower)
        THEN emoji_map["politics"]
        ELSE IF AnyIn(<<"uzay", "space", "moon", "mars", "roket">>, text_lower)
        THEN emoji_map["space"]
        ELSE IF AnyIn(<<"ke^^if", "bulu^^", "discovery", "bilim">>, text_lower)
        THEN emoji_map["science"]
        ELSE IF AnyIn(<<"patlama", "bomba", "explosion">>, text_lower)
        THEN emoji_map["explosion"]
        ELSE emoji_map["default"]

\* HistoryToTweetConverter._add_fixed_hashtags: the hashtags are always
\* added.
add_fixed_hashtags(tweet) == tweet \o "\n\n" \o "#TarihteBug^^n #Tarih"

\* HistoryToTweetConverter.convert_to_tweet: the template filled in and the
\* hashtags added; the source measures the length only to log it.
history_convert_to_tweet(event) ==
    LET year == Get(event, "year", Unknown)
        text == Get(event, "text", "")
        emoji == select_emoji(text, Get(event, "type", "event"))
        tweet == Format(history_template,
                        [emoji |-> emoji, year |-> YearStr(year),
                         text |-> text])
    IN  add_fixed_hashtags(tweet)

(***************************************************************************)
(* history_fetcher.py                                                      *)
(***************************************************************************)

\* list.sort(reverse=True, key=...) on a list of <<key, item>> pairs: the
\* sort is stable, so a pair goes behind the pairs whose key is not smaller.
RECURSIVE SortDescending(_)
SortDescending(pairs) ==
    IF Len(pairs) = 0 THEN <<>>
    ELSE LET sorted == SortDescending(SubSeq(pairs, 1, Len(pairs) - 1))
             x == pairs[Len(pairs)]
             p == Cardinality({i \in 1..Len(sorted) : sorted[i][1] >= x[1]})
         IN  SubSeq(sorted, 1, p) \o <<x>> \o SubSeq(sorted, p + 1, Len(sorted))

\* HistoryFetcher.priority_keywords
priority_keywords ==
    <<"sava^", "^ld^", "^ld^r^ld^", "suikast", "katliam", "devrim",
      "^mparator", "Kral", "Sultan", "mitoloji", "tanr^", "efsane",
      "felaket", "deprem", "yang^n", "patlama", "^^k^^", "y^k^m",
      "infaz", "idam", "isyan", "darbe", "istila", "ku^atma",
      "Napoleon", "Hitler", "Stalin", "Atat^rk", "Fatih", "Kanuni">>

\* HistoryFetcher._get_event_id
get_event_id(event) ==
    event["type"] \o "_" \o YearStr(event["year"]) \o "_"
        \o Prefix(event["text"], 50)

\* The entry of the API answer as fetch_today_events stores it.
history_event(type, entry) ==
    [type |-> type, year |-> Get(entry, "year", Unknown),
     text |-> Get(entry, "text", "")]

\* fetch_today_events without "Filter out already posted"
fetch_today_events_Unfiltered(response, posted) ==
    IF response.status # "ok" THEN <<>>
    ELSE LET data == response.data
             part(name, type, limit) ==
                 IF name \in DOMAIN data
                 THEN [i \in 1..Min(limit, Len(data[name])) |->
                          history_event(type, data[name][i])]
                 ELSE <<>>
         IN  part("events", "event", Len(data["events"]))
             \o part("births", "birth", 5)
             \o part("deaths", "death", 5)

\* HistoryFetcher.fetch_today_events: response is the answer of the API,
\* [status |-> "error"] when the request or its decoding raises.
fetch_today_events(response, posted) ==
    IF response.status # "ok" THEN <<>>
    ELSE LET data == response.data
             part(name, type, limit) ==
                 IF name \in DOMAIN data
                 THEN [i \in 1..Min(limit, Len(data[name])) |->
                          history_event(type, data[name][i])]
                 ELSE <<>>
             all_events == part("events", "event", Len(data["events"]))
                           \o part("births", "birth", 5)
                           \o part("deaths", "death", 5)
         IN  SelectSeq(all_events,
                       LAMBDA e : get_event_id(e) \notin posted)

\* keyword.lower() for each of the priority keywords
priority_keywords_lower ==
    [k \in 1..Len(priority_keywords) |-> Lower(priority_keywords[k])]

\* "Keyword matching": the priority keywords found in the lowered text.
keyword_hits(text) ==
    {k \in 1..Len(priority_keywords) :
        Contains(text, priority_keywords_lower[k])}

\* "Type bonuses"
type_bonus(event_type) ==
    IF event_type = "death" THEN 15
    ELSE IF event_type = "event" THEN 5 ELSE 0

\* "Era bonuses" with the range 1900-2000 tested first
era_bonus_ModernFirst(year) ==
    IF year = Unknown THEN 0
    ELSE IF 1900 <= year[1] /\ year[1] <= 2000 THEN 8
    ELSE IF 1914 <= year[1] /\ year[1] <= 1945 THEN 20
    ELSE IF year[1] < 500 THEN 15
    ELSE IF 500 <= year[1] /\ year[1] <= 1500 THEN 10
    ELSE 0

\* "Era bonuses": int(year) raises for the string 'Unknown' and the bare
\* except leaves the score as it is.
era_bonus(year) ==
    IF year = Unknown THEN 0
    ELSE IF 1914 <= year[1] /\ year[1] <= 1945 THEN 20
    ELSE IF year[1] < 500 THEN 15
    ELSE IF 500 <= year[1] /\ year[1] <= 1500 THEN 10
    ELSE IF 1900 <= year[1] /\ year[1] <= 2000 THEN 8
    ELSE 0

\* The importance score select_interesting_event gives one event.
history_score(event) ==
    LET text == Lower(Get(event, "text", ""))
        year == Get(event, "year", Num(0))
        event_type == Get(event, "type", "")
    IN  10 * Cardinality(keyword_hits(text)) + type_bonus(event_type)
        + era_bonus(year)

\* A mutant of top_15: the first fifteen events as they come.
top_15_Unsorted(events) ==
    [i \in 1..Min(15, Len(events)) |->
        <<history_score(events[i]), events[i]>>]

\* top_15 of select_interesting_event: the events scored, sorted by score
\* with the highest first, and cut to fifteen.
top_15(events) ==
    LET scored_events == [i \in 1..Len(events) |->
                             <<history_score(events[i]), events[i]>>]
        sorted == SortDescending(scored_events)
    IN  SubSeq(sorted, 1, Min(15, Len(sorted)))

\* "selected = random.choice(top_15)[1]" and what follows it: r is the draw
\* of random.choice, detailed the text get_event_details returns, "" when
\* it finds none.
select_from(top, r, detailed) ==
    LET selected == Choice(top, r)[2]
    IN  IF detailed # ""
        THEN [k \in DOMAIN selected \cup {"detailed_summary"} |->
                 IF k = "detailed_summary" THEN detailed ELSE selected[k]]
        ELSE selected

\* HistoryFetcher.select_interesting_event. The value is <<>> for None and
\* <<event>> for an event.
select_interesting_event(events, r, detailed) ==
    IF Len(events) = 0 THEN <<>>
    ELSE <<select_from(top_15(events), r, detailed)>>

(***************************************************************************)
(* rss_reader.py                                                           *)
(***************************************************************************)

\* RSSReader.feeds, by name
rss_feeds ==
    <<"BBC Sport Football", "Sky Sports Football", "ESPN FC", "Goal.com",
      "The Guardian Football">>

\* The article dict fetch_latest_news builds from a feed entry.
rss_article(entry, source) ==
    [title |-> Get(entry, "title", ""),
     summary |-> Get(entry, "summary", Get(entry, "description", "")),
     published |-> Get(entry, "published", 0),
     source |-> source,
     id |-> Get(entry, "id", Get(entry, "link", ""))]

\* RSSReader.fetch_latest_news: web[f] is what feedparser.parse gives for
\* feed f, [status |-> "error"] when reading that feed raises. The
\* published stamp is a number, larger for newer.
RECURSIVE feed_articles(_, _, _)
feed_articles(web, posted, f) ==
    IF f = 0 THEN <<>>
    ELSE feed_articles(web, posted, f - 1) \o
         (IF web[f].status # "ok" THEN <<>>
          ELSE LET entries == SubSeq(web[f].entries, 1,
                                     Min(5, Len(web[f].entries)))
                   articles == [i \in 1..Len(entries) |->
                                   rss_article(entries[i], rss_feeds[f])]
               IN  SelectSeq(articles,
                             LAMBDA a : a["id"] \notin posted))

\* fetch_latest_news with one try around the whole loop: a feed that raises
\* ends the fetch with nothing.
fetch_latest_news_AbortOnError(web, posted, max_articles) ==
    IF \E f \in 1..Len(rss_feeds) : web[f].status # "ok" THEN <<>>
    ELSE LET all_articles == feed_articles(web, posted, Len(rss_feeds))
             sorted == SortDescending([i \in 1..Len(all_articles) |->
                                          <<all_articles[i]["published"],
                                            all_articles[i]>>])
         IN  [i \in 1..Min(max_articles, Len(sorted)) |-> sorted[i][2]]

fetch_latest_news(web, posted, max_articles) ==
    LET all_articles == feed_articles(web, posted, Len(rss_feeds))
        sorted == SortDescending([i \in 1..Len(all_articles) |->
                                     <<all_articles[i]["published"],
                                       all_articles[i]>>])
    IN  [i \in 1..Min(max_articles, Len(sorted)) |-> sorted[i][2]]

(***************************************************************************)
(* tracker.py                                                              *)
(***************************************************************************)

\* datetime.now().isoformat(): the local time without a zone, here to the
\* hour.
datetime_now == now + utc_offset

\* FollowTracker._simulate_changes: sim is "none" when random.random() is
\* not below 0.1, and else the type random.choice draws.
simulate_changes(ath, sim) ==
    IF sim = "none" THEN <<>>
    ELSE <<[type |-> sim,
            athlete |-> ath["name"],
            athlete_handle |-> ath["twitter_handle"],
            target_name |-> "Demo User",
            target_handle |-> "@demouser",
            target_followers |-> Num(1000000),
            timestamp |-> datetime_now]>>

\* FollowTracker._get_user_info: users[id] is the data get_user answers
\* with, None when it answers without data or raises; followers_count is
\* Num(n), or None for a null in the answer.
get_user_info(users, user_id) ==
    IF users[user_id] = None THEN None
    ELSE <<[name |-> users[user_id][1].name,
            handle |-> "@" \o users[user_id][1].username,
            followers |-> users[user_id][1].followers_count]>>

\* The dicts one loop of "Detect changes" appends: ids is the set in the
\* order the for statement iterates it.
detected(type, ath, ids, users) ==
    LET known == SelectSeq(ids, LAMBDA id : get_user_info(users, id) # None)
    IN  [i \in 1..Len(known) |->
            LET user == get_user_info(users, known[i])[1]
            IN  [type |-> type,
                 athlete |-> ath["name"],
                 athlete_handle |-> ath["twitter_handle"],
                 target_name |-> user.name,
                 target_handle |-> user.handle,
                 target_followers |-> user.followers,
                 timestamp |-> datetime_now]]

\* A mutant of has_previous: the first check is compared as well.
has_previous_Always(previous_following) == TRUE

\* "if previous_following:" of check_athlete
has_previous(previous_following) == previous_following # {}

\* new_follows without the previous set taken away
new_follows_All(previous_following, current_following) == current_following

\* new_follows of check_athlete
new_follows(previous_following, current_following) ==
    current_following \ previous_following

\* A mutant of unfollows: an unfollow is never seen.
unfollows_None(previous_following, current_following) == {}

\* unfollows of check_athlete
unfollows(previous_following, current_following) ==
    previous_following \ current_following

\* FollowTracker._get_following_list: the ids of the answer of
\* get_users_following, the empty set when the answer has no data and when
\* the request raises.
get_following_list(request, followed) ==
    IF request = "raised" THEN {} ELSE followed

\* The elements of seq that are in S: a set iterated in the order of seq.
Iterate(S, seq) == SelectSeq(seq, LAMBDA x : x \in S)

\* A cache that keeps the entry an athlete already has.
update_cache_KeepOld(cache, cache_key, current_following) ==
    IF cache_key \in DOMAIN cache THEN cache
    ELSE [k \in DOMAIN cache \cup {cache_key} |->
             IF k = cache_key THEN current_following ELSE cache[k]]

\* "Update cache" of check_athlete:
\* self.following_cache[cache_key] = current_following
update_cache(cache, cache_key, current_following) ==
    [k \in DOMAIN cache \cup {cache_key} |->
        IF k = cache_key THEN current_following ELSE cache[k]]

\* FollowTracker.check_athlete. twitter is what the API does during the
\* call: twitter.user is how get_user(username) ends, twitter.following the
\* ids _get_following_list returns (the empty set when the request raises),
\* twitter.users the answers to get_user(id), twitter.order the order sets
\* of ids are iterated in; without a client twitter.sim are the draws of
\* _simulate_changes. The value holds the list returned and the cache
\* after the call.
check_athlete(ath, cache, has_client, twitter) ==
    IF ~has_client
    THEN [result |-> "demo", cache |-> cache,
          changes |-> simulate_changes(ath, twitter.sim)]
    ELSE IF twitter.user # "found"
    THEN [result |-> twitter.user, cache |-> cache, changes |-> <<>>]
    ELSE LET current_following == twitter.following
             cache_key == ath["twitter_handle"]
             previous_following == Get(cache, cache_key, {})
             follows == Iterate(new_follows(previous_following,
                                            current_following),
                                twitter.order)
             gone == Iterate(unfollows(previous_following,
                                       current_following),
                             twitter.order)
             changes ==
                 IF has_previous(previous_following)
                 THEN detected("follow", ath, follows, twitter.users)
                      \o detected("unfollow", ath, gone, twitter.users)
                 ELSE <<>>
         IN  [result |-> "checked",
              cache |-> update_cache(cache, cache_key, current_following),
              changes |-> changes,
              previous |-> previous_following,
              current |-> current_following]

(***************************************************************************)
(* database.py: the changes table. A row is kept with the columns          *)
(* check_duplicate and get_stats read; every INSERT adds a row.            *)
(***************************************************************************)

\* The zones the bot may run in: local time minus UTC, in hours.
UtcOffsets == {-5, 0, 3}

\* The hour after which the model does not follow the time.
MaxHour == 24

\* The default of the parameter hours of check_duplicate.
default_hours == 24

\* Database.save_change: the INSERT INTO changes.
save_change(table, chg) ==
    Append(table, [type |-> chg["type"],
                   athlete_handle |-> chg["athlete_handle"],
                   target_handle |-> chg["target_handle"],
                   timestamp |-> chg["timestamp"]])

\* datetime('now', '-' || hours || ' hours') of SQLite: 'now' is UTC.
sqlite_now_minus(hours) == now - hours

\* Database.get_stats: the counts of the changes table (the count of the
\* tweets table and the top athletes are left out).
get_stats(table) ==
    [total_changes |-> Len(table),
     follows |-> Cardinality({i \in 1..Len(table) :
                                 table[i].type = "follow"}),
     unfollows |-> Cardinality({i \in 1..Len(table) :
                                   table[i].type = "unfollow"})]

\* check_duplicate asking for exactly one row
check_duplicate_OneRow(table, chg, hours) ==
    Cardinality({i \in 1..Len(table) :
                    /\ table[i].athlete_handle = chg["athlete_handle"]
                    /\ table[i].target_handle = chg["target_handle"]
                    /\ table[i].type = chg["type"]
                    /\ table[i].timestamp > sqlite_now_minus(hours)}) = 1

\* Database.check_duplicate: COUNT(*) of the rows with the handles and the
\* type of chg whose timestamp, read as it was written, is later than the
\* UTC time hours ago.
check_duplicate(table, chg, hours) ==
    Cardinality({i \in 1..Len(table) :
                    /\ table[i].athlete_handle = chg["athlete_handle"]
                    /\ table[i].target_handle = chg["target_handle"]
                    /\ table[i].type = chg["type"]
                    /\ table[i].timestamp > sqlite_now_minus(hours)}) > 0

(***************************************************************************)
(* config.py and main.py: the body of "for athlete in athletes"           *)
(***************************************************************************)

\* The value of MIN_DRAMA_SCORE when the environment does not set it.
default_MIN_DRAMA_SCORE == 30

\* A mutant of score_high_enough: the threshold is not asked.
score_high_enough_Always(drama_score) == TRUE

\* "if drama_score >= self.config.MIN_DRAMA_SCORE" of check_and_tweet
score_high_enough(drama_score) == drama_score >= MIN_DRAMA_SCORE

\* One pass of "for change in changes" of check_and_tweet: the score, the
\* change saved with its score, and the tweet when the score is high enough
\* and AUTO_TWEET is set. success is what post_tweet returns when called;
\* the text generate renders for it is not kept. An exception of
\* calculate_score leaves the loop.
process_change(chg, ath, success) ==
    LET scored == calculate_score(chg, ath)
    IN  IF scored.exc # "none"
        THEN [change |-> chg, saved |-> FALSE, outcome |-> "raised"]
        ELSE LET drama_score == scored.val[1]
             IN  [change |-> [k \in DOMAIN chg \cup {"drama_score"} |->
                                 IF k = "drama_score" THEN drama_score
                                 ELSE chg[k]],
                  saved |-> TRUE,
                  outcome |->
                      IF ~score_high_enough(drama_score) THEN "too_low"
                      ELSE IF ~AUTO_TWEET THEN "not_posted"
                      ELSE IF success THEN "posted"
                      ELSE "post_failed"]

RECURSIVE saved_changes(_, _)
\* The changes table after the save_change calls of a log.
saved_changes(table, log) ==
    IF Len(log) = 0 THEN table
    ELSE LET rest == saved_changes(table, SubSeq(log, 1, Len(log) - 1))
             e == log[Len(log)]
         IN  IF e.saved THEN save_change(rest, e.change) ELSE rest

\* "for change in changes": what was done with each change, up to the
\* first one that raised.
process_changes(changes, ath, successes) ==
    LET done == [i \in 1..Len(changes) |->
                    process_change(changes[i], ath, successes[i])]
        raised == {i \in 1..Len(done) : done[i].outcome = "raised"}
    IN  IF raised = {} THEN done
        ELSE SubSeq(done, 1, CHOOSE i \in raised : \A j \in raised : i <= j)

(***************************************************************************)
(* tweet_generator.py: TweetGenerator.post_tweet                           *)
(***************************************************************************)

\* What a create_tweet call can do.
PostOutcomes == {"posted", "no_data", "rate_limited", "forbidden", "error"}

\* TweetGenerator.post_tweet: without a client (demo mode) it returns True;
\* with one it returns True when create_tweet answered with data and False
\* for an empty answer and for every exception.
post_tweet(has_client, outcome) ==
    IF ~has_client THEN TRUE ELSE outcome = "posted"

(***************************************************************************)
(* The scorer applied to one change: every input is drawn in ScoreInit.    *)
(***************************************************************************)

\* The change dicts: target_followers is present or absent.
ScoreChanges ==
    LET target_names ==
            {"", "Unknown Guy", "Barcelona star", "Piers Morgan",
             "LIONEL MESSI", "Cristiano Ronaldo of Barcelona",
             "liverpool fan"}
        followers ==
            {0, 100000, 100001, 1000000, 1000001, 10000000, 10000001,
             15000000}
        base == [type : {"follow", "unfollow"},
                 athlete : {"", "Test Player", "Kylian Mbapp^"},
                 target_name : target_names, target_handle : {"@t"}]
    IN  base \cup
        { [k \in DOMAIN b \cup {"target_followers"} |->
              IF k = "target_followers" THEN Num(f) ELSE b[k]] :
          b \in base, f \in followers }

\* The athlete dicts: team is present or absent.
ScoreAthletes ==
    {[name |-> "Test Player"]} \cup
    [name : {"Test Player"},
     team : {"", "Real Madrid", "Manchester United", "Chelsea"}]

ScoreInit ==
    /\ change \in ScoreChanges
    /\ athlete \in ScoreAthletes
    /\ score = <<>>
    /\ RenderIdle /\ ConfigIdle /\ TrackIdle /\ FeedIdle

\* scorer.calculate_score(change, athlete)
ScoreCall ==
    /\ score = <<>>
    /\ score' = <<calculate_score(change, athlete)>>
    /\ UNCHANGED <<change, athlete, renderVars, runVars, trackVars,
                   feedVars>>

ScoreNext == ScoreCall

SpecScore == ScoreInit /\ [][ScoreNext]_vars

\* The call has returned a value (it raised nothing).
ScoreReturned == score # <<>> /\ score[1].exc = "none"

\* The value calculate_score returned.
ScoreValue == score[1].val[1]

\* C6: calculate_score returns an integer in 0..100 for every follow or
\* unfollow change, every follower count >= 0 (0 and absent included), every
\* athlete and target name (the empty string included) and every team
\* (absent included).
C6_ScoreInRange ==
    score # <<>> => /\ ScoreReturned
                    /\ ScoreValue \in 0..100

\* C6 witness: the call has returned for a change with no target_followers
\* key, empty names and an athlete with no team.
C6_Witness ==
    /\ ScoreReturned
    /\ "target_followers" \notin DOMAIN change
    /\ change["target_name"] = ""
    /\ change["athlete"] = ""
    /\ "team" \notin DOMAIN athlete

Ind(b) == IF b THEN 1 ELSE 0

\* The popularity tiers as the specification lists them.
C7_Popularity(p) ==
    IF p > 10000000 THEN 25
    ELSE IF p > 1000000 THEN 15
    ELSE IF p > 100000 THEN 10
    ELSE 5

\* The sum of the terms of the claim, before the clamp.
C7_Sum ==
    LET rival == is_rivalry(athlete, change["target_name"])
        unf == change["type"] = "unfollow"
    IN  (IF unf THEN 40 ELSE 20)
        + C7_Popularity(Get(change, "target_followers", Num(0))[1])
        + 15 * Ind(is_superstar(change["athlete"]))
        + 15 * Ind(is_superstar(change["target_name"]))
        + 40 * Ind(rival)
        + 30 * Ind(is_controversial(change["target_name"]))
        + 20 * Ind(unf /\ rival)

\* The first scenario of C7: an unfollow by a Real Madrid athlete of
\* "Barcelona star" with 15,000,000 followers.
C7_RivalScenario ==
    /\ change["type"] = "unfollow"
    /\ Get(athlete, "team", "") = "Real Madrid"
    /\ change["target_name"] = "Barcelona star"
    /\ Get(change, "target_followers", Num(0)) = Num(15000000)

\* The second scenario of C7: a follow of an unknown target with 0 followers
\* by an athlete who is no superstar.
C7_PlainScenario ==
    /\ change["type"] = "follow"
    /\ change["target_name"] = "Unknown Guy"
    /\ change["athlete"] = "Test Player"
    /\ Get(change, "target_followers", Num(0)) = Num(0)

\* C7: the score equals min(100, base + popularity + 15 per superstar name
\* + 40 for a rivalry + 30 for a controversial target + 20 for an unfollow
\* in a rivalry), with base 40 for an unfollow and 20 for a follow; the
\* Real Madrid / "Barcelona star" unfollow sums to 125 and scores 100, and
\* the follow of an unknown target with 0 followers scores 25.
C7_ScoreFormula ==
    score # <<>> =>
        /\ ScoreReturned
        /\ ScoreValue = (IF C7_Sum > 100 THEN 100 ELSE C7_Sum)
        /\ C7_RivalScenario /\ change["athlete"] = "Test Player" => C7_Sum = 125
        /\ C7_RivalScenario => ScoreValue = 100
        /\ C7_PlainScenario => ScoreValue = 25

\* C7 witness: the Real Madrid / "Barcelona star" unfollow has been scored.
C7_Witness == ScoreReturned /\ C7_RivalScenario /\ ScoreValue = 100

\* The call has scored a follow in which only the base score of 20 and the
\* popularity bonus count: the names are no superstar, no rival and no
\* controversial figure.
PlainFollowScored ==
    /\ ScoreReturned
    /\ change["type"] = "follow"
    /\ change["target_name"] = "Unknown Guy"
    /\ change["athlete"] = "Test Player"

\* The follower count of the change scored, 0 when the key is absent.
Followers == Get(change, "target_followers", Num(0))[1]

\* The popularity bonus in the score of a plain follow.
BonusScored == ScoreValue - 20

\* The bonus is one of the four values and does not decrease with the
\* follower count: no smaller count of the model has a higher tier.
FourSteps ==
    /\ BonusScored \in {5, 10, 15, 25}
    /\ \A c \in ScoreChanges :
           /\ "target_followers" \in DOMAIN c
           /\ c["target_followers"][1] <= Followers
           => PopularityBonus(c["target_followers"][1]) <= BonusScored

\* C22 as stated: the popularity bonus is a non-decreasing step function of
\* target_followers with the four values 5, 10, 15 and 25, and each boundary
\* belongs to the higher tier: 100,000 receives 10, 1,000,000 receives 15
\* and 10,000,000 receives 25.
C22_BoundaryInHigherTier ==
    PlainFollowScored =>
        /\ FourSteps
        /\ Followers = 100000 => BonusScored = 10
        /\ Followers = 1000000 => BonusScored = 15
        /\ Followers = 10000000 => BonusScored = 25

\* C22 amended: as above, but each boundary belongs to the lower tier, the
\* comparisons being strict: 100,000 receives 5, 1,000,000 receives 10 and
\* 10,000,000 receives 15, and the next count receives the higher bonus.
C22_BoundaryInLowerTier ==
    PlainFollowScored =>
        /\ FourSteps
        /\ Followers = 100000 => BonusScored = 5
        /\ Followers = 100001 => BonusScored = 10
        /\ Followers = 1000000 => BonusScored = 10
        /\ Followers = 1000001 => BonusScored = 15
        /\ Followers = 10000000 => BonusScored = 15
        /\ Followers = 10000001 => BonusScored = 25

\* C22 witness: a plain follow of a target with exactly 10,000,000
\* followers has been scored 20 + 15.
C22_Witness ==
    /\ PlainFollowScored
    /\ Followers = 10000000
    /\ ScoreValue = 35

(***************************************************************************)
(* calculate_score applied to a change in which fields are missing          *)
(***************************************************************************)

\* The fields of a change that a caller may leave out.
OptionalFields == {"target_name", "target_handle", "athlete",
                   "target_followers"}

\* A change dict without the fields of `gone'.
Without(chg, gone) == [k \in DOMAIN chg \ gone |-> chg[k]]

\* Complete changes, the same changes with any of the optional fields left
\* out, and the same changes with a null follower count.
PartialChanges ==
    LET complete ==
            [type : {"follow", "unfollow"},
             athlete : {"Test Player", "Kylian Mbapp^"},
             target_name : {"Unknown Guy", "Piers Morgan"},
             target_handle : {"@t"},
             target_followers : {Num(0), Num(2000000), None}]
    IN  {Without(c, gone) : c \in complete, gone \in SUBSET OptionalFields}

PartialInit ==
    /\ change \in PartialChanges
    /\ athlete \in ScoreAthletes
    /\ score = <<>>
    /\ RenderIdle /\ ConfigIdle /\ TrackIdle /\ FeedIdle

SpecPartial == PartialInit /\ [][ScoreNext]_vars

\* The change with every missing or null field replaced by the value that
\* contributes nothing: the empty name, the empty handle, no followers.
Completed(chg) ==
    [k \in DOMAIN chg \cup OptionalFields |->
        IF k = "target_followers"
        THEN IF k \in DOMAIN chg /\ chg[k] # None THEN chg[k] ELSE Num(0)
        ELSE IF k \in DOMAIN chg THEN chg[k] ELSE ""]

\* C28: calculate_score never raises: for a change without target_name,
\* without target_handle, without athlete, with target_followers absent or
\* null, and for an athlete without team, it returns the score in which the
\* missing field contributes nothing.
C28_MissingFieldsScoreZero ==
    score # <<>> =>
        /\ ScoreReturned
        /\ ScoreValue = calculate_score(Completed(change), athlete).val[1]

(***************************************************************************)
(* The renderers applied to one input: the input is drawn in RenderInit,   *)
(* the random draws in the call.                                           *)
(***************************************************************************)

\* The largest number a random draw yields; Choice folds it onto the list.
MaxDraw == 6

\* The lengths of the long titles, names and texts.
ShortFits == 200
NothingFits == 300

\* The article dicts: summary is present or absent.
NewsArticles ==
    [title : {"", "Big news today",
              "[BBC] LIVE: Arsenal win the derby (video)",
              "Ronaldo agrees Manchester United deal",
              Pad("Report ", ShortFits), Pad("Report ", NothingFits),
              Pad("Salah goal ", NothingFits)}] \cup
    [title : {"Manager faces the board", Pad("Bid ", NothingFits)},
     summary : {"Crisis talks after the row", "A transfer rumour"}]

\* The draws of convert_to_tweet.
NewsDraws ==
    [template : 0..MaxDraw, body : 0..MaxDraw, closer : 0..MaxDraw,
     short : 0..MaxDraw]

\* The change dicts handed to generate: drama_score is present or absent.
GenerateChanges ==
    LET base == [type : {"follow", "unfollow"},
                 athlete : {"", "Cristiano Ronaldo", "Test Player",
                            Pad("A", NothingFits)},
                 target_name : {"Lionel Messi", Pad("T", ShortFits)},
                 target_handle : {"@t", Pad("@", NothingFits)}]
    IN  base \cup
        { [k \in DOMAIN b \cup {"drama_score"} |->
              IF k = "drama_score" THEN ds ELSE b[k]] :
          b \in base, ds \in {50, 61, 71} }

\* The length of the longest event text whose tweet has 280 characters, for a
\* four-digit year and the default emoji.
HistoryFits == 228

\* The event dicts of fetch_today_events.
HistoryEvents ==
    [type : {"event", "birth", "death"}, year : {Num(1944), Num(-44), Unknown},
     text : {"", "Battle of Hastings", Pad("Event ", HistoryFits),
             Pad("Event ", HistoryFits + 1), Pad("Event ", NothingFits)}]

RenderInit ==
    /\ job \in [kind : {"news"}, article : NewsArticles]
              \cup [kind : {"generate"}, change : GenerateChanges]
              \cup [kind : {"history"}, event : HistoryEvents]
    /\ draws = <<>>
    /\ rendered = NotRendered
    /\ ScoreIdle /\ ConfigIdle /\ TrackIdle /\ FeedIdle

\* news_converter.convert_to_tweet(article)
RenderNews ==
    /\ rendered = NotRendered
    /\ job.kind = "news"
    /\ \E prepared \in {news_prepare(job.article)} :
           \E rnd \in NewsDraws :
               /\ draws' = rnd
               /\ rendered' = news_render(prepared, rnd)
    /\ UNCHANGED <<job, scoreVars, runVars, trackVars, feedVars>>

\* tweet_gen.generate(change, athlete)
RenderGenerate ==
    /\ rendered = NotRendered
    /\ job.kind = "generate"
    /\ \E rnd \in [template : 0..MaxDraw] :
           /\ draws' = rnd
           /\ rendered' = generate_render(job.change,
                                          [name |-> job.change["athlete"]],
                                          rnd)
    /\ UNCHANGED <<job, scoreVars, runVars, trackVars, feedVars>>

\* history_converter.convert_to_tweet(event, details)
RenderHistory ==
    /\ rendered = NotRendered
    /\ job.kind = "history"
    /\ rendered' = [stage |-> "full",
                    text |-> history_convert_to_tweet(job.event)]
    /\ UNCHANGED <<job, draws, scoreVars, runVars, trackVars, feedVars>>

RenderNext == RenderNews \/ RenderGenerate \/ RenderHistory

SpecRender == RenderInit /\ [][RenderNext]_vars

\* C4: NewsToTweetConverter.convert_to_tweet and TweetGenerator.generate
\* return a text of at most 280 characters for every input.
C4_FootballTweetsFit ==
    rendered # NotRendered /\ job.kind \in {"news", "generate"}
        => Len(rendered.text) <= 280

\* C4 witness: the news converter has returned a text of exactly 280
\* characters, cut from a short form that was over 280.
C4_Witness ==
    /\ job.kind = "news"
    /\ rendered # NotRendered
    /\ rendered.stage = "cut"
    /\ Len(rendered.short) > 280
    /\ Len(rendered.text) = 280

\* The full-form text of the latest rendering; the history converter has no
\* other form.
FullForm ==
    IF "full" \in DOMAIN rendered THEN rendered.full ELSE rendered.text

\* C14: every renderer enforces the length in three ordered stages: the
\* full template is returned if it fits in 280 characters; otherwise a
\* short form is rendered and returned if it fits; only a short form that
\* is over 280 is cut to 277 characters plus "...". No renderer cuts a
\* full-form text without having tried a short form.
C14_ThreeStages ==
    rendered # NotRendered /\ job.kind \in {"news", "generate", "history"} =>
        IF Len(FullForm) <= 280
        THEN rendered.text = FullForm
        ELSE /\ "short" \in DOMAIN rendered
             /\ rendered.text =
                    (IF Len(rendered.short) <= 280 THEN rendered.short
                     ELSE Prefix(rendered.short, 277) \o "...")

\* The short form _shorten_tweet gives for the article and the draws of the
\* latest news rendering, whether convert_to_tweet asked for it or not.
ShortForm == shorten_tweet(rendered.title, rendered.category, draws)

\* C31: for every article, of every category, and every draw of template
\* and fragments, the short form of the news converter is not longer than
\* the full form (template and hashtags) rendered for the same article.
C31_ShortFormNotLonger ==
    rendered # NotRendered /\ job.kind = "news" =>
        /\ Len(ShortForm) <= Len(rendered.full)
        /\ "short" \in DOMAIN rendered => rendered.short = ShortForm

\* C31 witness: a full form over 280 made convert_to_tweet return the
\* short form, which fits and is shorter.
C31_Witness ==
    /\ job.kind = "news"
    /\ rendered # NotRendered
    /\ rendered.stage = "short"
    /\ Len(rendered.full) > 280
    /\ rendered.text = rendered.short
    /\ Len(rendered.short) < Len(rendered.full)

\* C5: HistoryToTweetConverter.convert_to_tweet returns a text of at most
\* 280 characters, hashtags included, for every event.
C5_HistoryTweetsFit ==
    rendered # NotRendered /\ job.kind = "history"
        => Len(rendered.text) <= 280

(***************************************************************************)
(* main_history.py and main_rss.py: the history bot and the news bot, one   *)
(* tick of the schedule at a time.                                         *)
(***************************************************************************)

\* HistoryBot.tweets_per_day and FootballNewsBot.tweets_per_day
tweets_per_day == 15

\* HistoryBot.peak_start_hour, peak_start_minute and peak_end_hour
peak_start_hour == 12
peak_start_minute == 30
peak_end_hour == 21

\* A mutant of is_peak_hour: the end of the active hours is not tested.
is_peak_hour_NoEnd(t) ==
    LET current_hour == t \div 60
        current_minute == t % 60
    IN  IF current_hour < peak_start_hour THEN FALSE
        ELSE IF current_hour = peak_start_hour
                /\ current_minute < peak_start_minute THEN FALSE
        ELSE TRUE

\* HistoryBot.is_peak_hour at minute t of the day
is_peak_hour(t) ==
    LET current_hour == t \div 60
        current_minute == t % 60
    IN  IF current_hour < peak_start_hour THEN FALSE
        ELSE IF current_hour = peak_start_hour
                /\ current_minute < peak_start_minute THEN FALSE
        ELSE IF current_hour >= peak_end_hour THEN FALSE
        ELSE TRUE

\* The dates the clock passes through.
MaxDate == 2

\* The date a run starts on: a bot that publishes from the seventeen
\* articles of the feeds is followed on the last date, every other bot over
\* all dates.
FirstDate == IF bot = "news" /\ AUTO_TWEET THEN MaxDate ELSE 1

\* The times of day a tick is taken at: around the two ends of the active
\* hours for the history bot; the news bot reads the date only.
SampleMinutes ==
    IF bot = "history" THEN {12 * 60 + 29, 12 * 60 + 30, 20 * 60 + 59, 21 * 60}
    ELSE {0}

\* The largest draw of a random.choice in a tick.
MaxTickDraw == 1

\* How many writes to the store may raise in one run.
MaxDbFaults == 1

\* A text of exactly 50 characters: what _get_event_id keeps of a text.
FiftyChars == "Ankara'da toplanan kurul yeni bir karar aldi ve bu"

\* What the "on this day" API answers for a date.
OnThisDay(date) ==
    IF date % 2 = 1
    THEN [events |->
              <<[year |-> Num(1944), text |-> "Sava^ta b^y^k patlama"],
                [year |-> Num(1960), text |-> FiftyChars \o " kabul"],
                [year |-> Num(1960), text |-> FiftyChars \o " ret"],
                [year |-> Num(1923), text |-> "Cumhuriyet ilan edildi"]>>,
          births |-> <<[year |-> Num(1881), text |-> "Mustafa Kemal Atat^rk"]>>,
          deaths |-> <<[text |-> "Bilinmeyen bir ^air"]>>]
    ELSE [events |-> <<[year |-> Num(1071), text |-> "Malazgirt Sava^i"]>>]

WikipediaAnswers(date) ==
    {[status |-> "error"], [status |-> "ok", data |-> OnThisDay(date)]}

\* The entries of feed f: entry i carries an id, or only a link, a title
\* and a stamp that makes the entries of all feeds interleave.
FeedEntries(f, n) ==
    [i \in 1..n |->
        LET key == Str(f) \o "/" \o Str(i)
            rest == [title |-> "Match report " \o key,
                     published |-> 10 * i + f]
        IN  IF i % 2 = 0
            THEN [k \in {"title", "published", "link"} |->
                     IF k = "link" THEN "https://feed/" \o key ELSE rest[k]]
            ELSE [k \in {"title", "published", "id", "link"} |->
                     IF k = "id" THEN "urn:" \o key
                     ELSE IF k = "link" THEN "https://feed/" \o key
                     ELSE rest[k]]]

\* What the five feeds answer: all of them, or none.
NewsWebs ==
    {[f \in 1..5 |-> [status |-> "ok",
                      entries |-> FeedEntries(f, IF f = 1 THEN 6 ELSE 3)]],
     [f \in 1..5 |-> [status |-> "error"]]}

\* The posted set of the bot that runs.
Posted == IF bot = "history" THEN posted_events ELSE posted_articles

\* The record of a tick: how it ended, the identity selected and the text
\* rendered (<<>> when there is none).
Tick(outcome, selected, text) ==
    [outcome |-> outcome, selected |-> selected, text |-> text]

FetchCalled(tick) == tick.outcome \notin {"none", "outside_hours", "limit"}
PostCalled(tick) == tick.outcome \in {"posted", "post_failed", "error"}
PostSucceeded(tick) == tick.outcome \in {"posted", "error"}

FeedInit ==
    /\ bot \in {"history", "news"}
    /\ AUTO_TWEET \in BOOLEAN
    /\ MIN_DRAMA_SCORE = default_MIN_DRAMA_SCORE
    /\ client \in BOOLEAN
    /\ clock \in [date : {FirstDate}, minute : SampleMinutes]
    /\ daily_tweet_count = 0
    /\ last_reset = clock.date
    /\ posted_events = {}
    /\ posted_articles = {}
    /\ tweets = 0
    /\ db_faults = 0
    /\ last = NoTick
    /\ confirmed = {}
    /\ published_on = [d \in 1..MaxDate |-> 0]
    /\ restarts = 0
    /\ loop = "running"
    /\ ScoreIdle /\ RenderIdle /\ TrackIdle

\* A tick that returns before it selects anything: outside the active
\* hours, at the daily limit, or with nothing fetched. count is the counter
\* after the daily reset.
EndTick(count, outcome) ==
    /\ daily_tweet_count' = count
    /\ last' = Tick(outcome, <<>>, <<>>)
    /\ UNCHANGED <<posted_events, posted_articles, tweets, db_faults,
                   confirmed, published_on>>

\* set.add of mark_as_posted
marked(posted, id) == posted \cup {id}

\* mark_as_posted of the bot that runs
mark_as_posted(id) ==
    IF bot = "history"
    THEN posted_events' = marked(posted_events, id)
         /\ UNCHANGED posted_articles
    ELSE posted_articles' = marked(posted_articles, id)
         /\ UNCHANGED posted_events

\* The else branch with the failed post recorded in the tweets table and
\* counted like a successful one
PostFailed_Counted(count, id, tweet_text) ==
    /\ tweets' = tweets + 1
    /\ daily_tweet_count' = count + 1
    /\ last' = Tick("post_failed", <<id>>, <<tweet_text>>)
    /\ UNCHANGED <<posted_events, posted_articles, db_faults, confirmed,
                   published_on>>

\* The else branch of "if success": the failure is logged and nothing is
\* written.
PostFailed(count, id, tweet_text) ==
    /\ daily_tweet_count' = count
    /\ last' = Tick("post_failed", <<id>>, <<tweet_text>>)
    /\ UNCHANGED <<posted_events, posted_articles, tweets, db_faults,
                   confirmed, published_on>>

\* "Post tweet" with mark_as_posted placed before the test of success
PostTweet_MarkBeforeSuccess(count, id, tweet_text) ==
    IF AUTO_TWEET
    THEN \E success \in {post_tweet(client, o) : o \in PostOutcomes} :
           /\ mark_as_posted(id)
           /\ IF success
              THEN /\ confirmed' = confirmed \cup {id}
                   /\ published_on' =
                          [published_on EXCEPT ![clock.date] = @ + 1]
                   /\ tweets' = tweets + 1
                   /\ daily_tweet_count' = count + 1
                   /\ last' = Tick("posted", <<id>>, <<tweet_text>>)
                   /\ UNCHANGED db_faults
              ELSE /\ daily_tweet_count' = count
                   /\ last' = Tick("post_failed", <<id>>, <<tweet_text>>)
                   /\ UNCHANGED <<tweets, db_faults, confirmed, published_on>>
    ELSE /\ daily_tweet_count' = count + 1
         /\ last' = Tick("dry_run", <<id>>, <<tweet_text>>)
         /\ UNCHANGED <<posted_events, posted_articles, tweets, db_faults,
                        confirmed, published_on>>

\* "Post tweet" of post_history_tweet and post_news_tweet: with AUTO_TWEET,
\* post_tweet, and on success mark_as_posted, the INSERT into tweets and the
\* increment, in this order; an INSERT that raises ends the tick in the
\* except clause. Without AUTO_TWEET the counter is incremented.
PostTweet(count, id, tweet_text) ==
    IF AUTO_TWEET
    THEN \E success \in {post_tweet(client, o) : o \in PostOutcomes} :
           IF success
           THEN /\ mark_as_posted(id)
                /\ confirmed' = confirmed \cup {id}
                /\ published_on' =
                       [published_on EXCEPT ![clock.date] = @ + 1]
                /\ \/ /\ tweets' = tweets + 1
                      /\ daily_tweet_count' = count + 1
                      /\ last' = Tick("posted", <<id>>, <<tweet_text>>)
                      /\ UNCHANGED db_faults
                   \/ /\ db_faults < MaxDbFaults
                      /\ db_faults' = db_faults + 1
                      /\ daily_tweet_count' = count
                      /\ last' = Tick("error", <<id>>, <<tweet_text>>)
                      /\ UNCHANGED tweets
           ELSE PostFailed(count, id, tweet_text)
    ELSE /\ daily_tweet_count' = count + 1
         /\ last' = Tick("dry_run", <<id>>, <<tweet_text>>)
         /\ UNCHANGED <<posted_events, posted_articles, tweets, db_faults,
                        confirmed, published_on>>

(***************************************************************************)
(* run() of the three bots: the scheduling loop around the ticks.          *)
(***************************************************************************)

\* A mutant of tick_catches: the tick has no except clause.
tick_catches_Nothing(exc) == FALSE

\* "except Exception" of a tick: it catches every exception but those that
\* derive from BaseException only.
tick_catches(exc) == exc \notin {"KeyboardInterrupt", "SystemExit"}

\* The exception that leaves a tick whose body raised exc ("none": it
\* raised nothing).
leaves_tick(exc) == IF exc # "none" /\ tick_catches(exc) THEN "none" ELSE exc

\* The loop of run() after a tick that let exc out: "except
\* KeyboardInterrupt" and "except Exception" both end it.
run_loop(exc) ==
    CASE exc = "none" -> "running"
      [] exc = "KeyboardInterrupt" -> "interrupted"
      [] OTHER -> "fatal"

\* The exception the body of a history or news tick raised: the INSERT
\* into tweets is the statement that can raise.
raised_in_tick(tick) ==
    IF tick.outcome = "error" THEN "sqlite3.Error" ELSE "none"

\* The exception the change loop of a check raised.
raised_in_check(log) ==
    IF \E i \in 1..Len(log) : log[i].outcome = "raised" THEN "TypeError"
    ELSE "none"

\* Ctrl+C while run() sleeps between two ticks.
Interrupt ==
    /\ loop = "running"
    /\ loop' = "interrupted"
    /\ UNCHANGED <<configVars, scoreVars, renderVars, trackVars, feedVars>>

\* The identities of a list of events or of articles.
EventIds(events) == {get_event_id(events[i]) : i \in 1..Len(events)}
ArticleIds(articles) == {articles[i]["id"] : i \in 1..Len(articles)}

\* A mutant of CountAfterReset: the counter is never reset.
CountAfterReset_Never == daily_tweet_count

\* The counter after "Reset daily counter".
CountAfterReset ==
    IF clock.date # last_reset THEN 0 ELSE daily_tweet_count

\* HistoryBot.post_history_tweet
HistoryTick ==
    /\ bot = "history"
    /\ loop = "running"
    /\ last_reset' = clock.date
    /\ IF ~is_peak_hour(clock.minute)
       THEN EndTick(CountAfterReset, "outside_hours")
       ELSE IF CountAfterReset >= tweets_per_day
       THEN EndTick(CountAfterReset, "limit")
       ELSE \E response \in WikipediaAnswers(clock.date) :
            \E events \in {fetch_today_events(response, posted_events)} :
              IF Len(events) = 0
              THEN EndTick(CountAfterReset, "no_events")
              ELSE \E top \in {top_15(events)} :
                   \E r \in 0..MaxTickDraw :
                   \E event \in {Choice(top, r)[2]} :
                   \E tweet_text \in {history_convert_to_tweet(event)} :
                     PostTweet(CountAfterReset, get_event_id(event),
                               tweet_text)
    /\ loop' = run_loop(leaves_tick(raised_in_tick(last')))
    /\ UNCHANGED <<clock, restarts, configVars, trackVars, scoreVars,
                   renderVars>>

\* FootballNewsBot.post_news_tweet
NewsTick ==
    /\ bot = "news"
    /\ loop = "running"
    /\ last_reset' = clock.date
    /\ IF CountAfterReset >= tweets_per_day
       THEN EndTick(CountAfterReset, "limit")
       ELSE \E web \in NewsWebs :
            \E articles \in {fetch_latest_news(web, posted_articles, 10)} :
              IF Len(articles) = 0
              THEN EndTick(CountAfterReset, "no_events")
              ELSE \E r \in 0..MaxTickDraw :
                   \E article \in {Choice(articles, r)} :
                   \E tweet_text \in {news_convert_to_tweet(
                                         article,
                                         [template |-> r, body |-> r,
                                          closer |-> r, short |-> r])} :
                     PostTweet(CountAfterReset, article["id"], tweet_text)
    /\ loop' = run_loop(leaves_tick(raised_in_tick(last')))
    /\ UNCHANGED <<clock, restarts, configVars, trackVars, scoreVars,
                   renderVars>>

\* Time passes between two ticks.
Advance ==
    /\ bot \in {"history", "news"}
    /\ loop = "running"
    /\ \E d \in clock.date..MaxDate, m \in SampleMinutes :
          /\ d > clock.date \/ m > clock.minute
          /\ clock' = [date |-> d, minute |-> m]
    /\ UNCHANGED <<daily_tweet_count, last_reset, posted_events,
                   posted_articles, tweets, db_faults, last, confirmed,
                   published_on, restarts, runVars, trackVars, scoreVars,
                   renderVars>>

FeedNext == HistoryTick \/ NewsTick \/ Advance \/ Interrupt

SpecFeed == FeedInit /\ [][FeedNext]_vars

\* How often the process is started again.
MaxRestarts == 1

\* The process ends and is started again: __init__ of the bot and of its
\* fetcher build a new posted set and a new counter; the store file stays.
\* The restart followed is one right after the tick that recorded the first
\* publish.
Restart ==
    /\ bot \in {"history", "news"}
    /\ restarts < MaxRestarts
    /\ last.outcome = "posted" /\ tweets = 1
    /\ restarts' = restarts + 1
    /\ posted_events' = {}
    /\ posted_articles' = {}
    /\ daily_tweet_count' = 0
    /\ last_reset' = clock.date
    /\ loop' = "running"
    /\ UNCHANGED <<clock, tweets, db_faults, last, confirmed, published_on>>
    /\ UNCHANGED <<configVars, trackVars, scoreVars, renderVars>>

RestartNext == HistoryTick \/ NewsTick \/ Advance \/ Interrupt \/ Restart

SpecRestart == FeedInit /\ [][RestartNext]_vars

\* A step of the bot is a tick exactly when it leaves the clock alone and
\* is not the interrupt.
IsTick == clock' = clock /\ loop' # "interrupted"

\* What a fetch of the bot returns in the current state, for every answer
\* of its source.
FetchedIds ==
    IF bot = "history"
    THEN UNION {EventIds(fetch_today_events(response, posted_events)) :
                   response \in WikipediaAnswers(clock.date)}
    ELSE UNION {ArticleIds(fetch_latest_news(web, posted_articles, 10)) :
                   web \in NewsWebs}

\* C1: in the history bot and in the news bot, once an item was published
\* and marked as posted no later tick selects or publishes an item of the
\* same identity: every fetch returns only items whose identity is not in
\* the posted set, the item a tick selects is not in the posted set the tick
\* started with, and the posted set never loses an element.
C1_NoRepublish ==
    [][/\ FetchedIds \cap Posted = {}
       /\ IsTick /\ last'.selected # <<>> => last'.selected[1] \notin Posted
       /\ Posted \subseteq Posted']_vars

\* C1 witness: two items are posted, the second by the tick that just ran,
\* and the source still offers its items.
C1_Witness ==
    /\ bot \in {"history", "news"}
    /\ Cardinality(Posted) >= 2
    /\ last.outcome = "posted"
    /\ last.selected[1] \in Posted
    /\ FetchedIds # {}

\* C2: in the history bot and the news bot an identity enters the posted
\* set only in a tick in which post_tweet returned success for that very
\* item, and every identity in the posted set belongs to a post_tweet call
\* that succeeded earlier.
C2_PostedOnlyAfterSuccess ==
    [][/\ Posted' # Posted =>
              /\ IsTick
              /\ PostSucceeded(last')
              /\ Posted' = Posted \cup {last'.selected[1]}
       /\ Posted' \subseteq confirmed']_vars

\* C2 witness: after an item was posted, a tick whose post_tweet failed has
\* left the posted set as it was.
C2_Witness ==
    /\ bot \in {"history", "news"}
    /\ Posted # {}
    /\ last.outcome = "post_failed"
    /\ last.selected[1] \notin Posted

\* C3: in the history bot and the news bot daily_tweet_count is in
\* 0..tweets_per_day in every reachable state, a tick that starts with
\* daily_tweet_count = tweets_per_day on the current date calls neither the
\* fetcher nor post_tweet, and the number of successful publishes on any one
\* date never exceeds tweets_per_day.
C3_DailyBudget ==
    /\ [](daily_tweet_count \in 0..tweets_per_day)
    /\ [][IsTick /\ last_reset = clock.date
             /\ daily_tweet_count = tweets_per_day
          => ~FetchCalled(last') /\ ~PostCalled(last')]_vars
    /\ [](\A d \in 1..MaxDate : published_on[d] <= tweets_per_day)

\* The tick incremented daily_tweet_count.
Counted(tick) == tick.outcome \in {"posted", "dry_run"}

\* C15: in the history bot and the news bot daily_tweet_count is reset to 0
\* exactly once per date change. The first tick on a date other than
\* last_reset starts from a count of 0 and sets last_reset to that date; a
\* tick on the date of last_reset does not lower the count; nothing but a
\* tick changes the count or last_reset.
C15_ResetOncePerDate ==
    [][IF IsTick
       THEN /\ last_reset' = clock.date
            /\ clock.date # last_reset =>
                   daily_tweet_count' = (IF Counted(last') THEN 1 ELSE 0)
            /\ clock.date = last_reset =>
                   daily_tweet_count' >= daily_tweet_count
       ELSE UNCHANGED <<daily_tweet_count, last_reset>>]_vars

\* C15 witness: the history bot published, and counted, on the first date
\* and on the last date its count is 0 after a tick that fetched nothing.
C15_Witness ==
    /\ bot = "history"
    /\ AUTO_TWEET
    /\ published_on[1] > MaxDbFaults
    /\ clock.date = MaxDate
    /\ last_reset = MaxDate
    /\ last.outcome = "no_events"
    /\ daily_tweet_count = 0

\* Minute t of the day lies in the active window, 12:30 <= t < 21:00.
InWindow(t) ==
    peak_start_hour * 60 + peak_start_minute <= t /\ t < peak_end_hour * 60

\* A tick of the history bot outside the active window fetches, selects
\* and publishes nothing and leaves the posted set and the records alone; a
\* tick inside the window is not stopped by the window test.
WindowGate ==
    /\ ~InWindow(clock.minute) =>
          /\ ~FetchCalled(last') /\ ~PostCalled(last')
          /\ last'.selected = <<>>
          /\ UNCHANGED <<posted_events, tweets, confirmed, published_on>>
    /\ InWindow(clock.minute) => last'.outcome # "outside_hours"

NothingRecorded ==
    /\ UNCHANGED <<posted_events, posted_articles, tweets, confirmed,
                   published_on>>
    /\ last'.selected[1] \notin Posted'
    /\ last'.selected[1] \in FetchedIds

\* C17 as stated: when post_tweet returns failure in a history or news
\* tick, the posted set, the tweets table and daily_tweet_count are
\* unchanged by that tick, and the failed item is kept nowhere: only a later
\* fetch can bring it back.
C17_FailedPostWritesNothing ==
    [][IsTick /\ last'.outcome = "post_failed" =>
          NothingRecorded /\ UNCHANGED daily_tweet_count]_vars

\* C17 amended: as above, but daily_tweet_count is what the daily reset at
\* the start of the tick left: unchanged on the date of last_reset, 0 on a
\* new date; the failed post is not counted.
C17_FailedPostNotCounted ==
    [][IsTick /\ last'.outcome = "post_failed" =>
          /\ NothingRecorded
          /\ daily_tweet_count' =
                 (IF clock.date = last_reset THEN daily_tweet_count
                  ELSE 0)]_vars

\* C17 witness: after two counted tweets the news bot selected an article
\* and post_tweet returned False for it.
C17_Witness ==
    /\ bot = "news"
    /\ last.outcome = "post_failed"
    /\ daily_tweet_count >= 2
    /\ tweets = daily_tweet_count
    /\ Cardinality(posted_articles) = tweets

\* C35: in the history bot and the news bot daily_tweet_count is the number
\* of publishes post_tweet confirmed since the last daily reset; with
\* AUTO_TWEET false it stays 0.
C35_CountIsPublishes ==
    bot \in {"history", "news"} =>
        /\ daily_tweet_count = published_on[last_reset]
        /\ ~AUTO_TWEET => daily_tweet_count = 0

\* The items of the complete answers of the source that an identity of the
\* posted set keeps out of a fetch, as <<answer, position>>.
FilteredOut(id) ==
    IF bot = "history"
    THEN {<<response, i>> \in WikipediaAnswers(clock.date) \X (1..20) :
             LET all == fetch_today_events(response, {})
             IN  i <= Len(all) /\ get_event_id(all[i]) = id}
    ELSE {<<web, i>> \in NewsWebs \X (1..20) :
             LET all == fetch_latest_news(web, {}, 20)
             IN  i <= Len(all) /\ all[i]["id"] = id}

\* C27: identities are unique across the items of a fetch: the events of an
\* API answer that differ in type, year or text, and the distinct entries of
\* the feeds, have different identities, so an identity marked as posted
\* keeps at most one item out of a later fetch.
C27_IdentityFiltersOneItem ==
    bot \in {"history", "news"} =>
        \A id \in Posted : Cardinality(FilteredOut(id)) <= 1

\* C26: when the history bot or the news bot is started again, its posted
\* set is filled from the store: the identity the latest tick published and
\* recorded before the restart is in the posted set after it, so that the
\* first fetch filters it out.
C26_PostedSetSurvivesRestart ==
    [][restarts' # restarts /\ last.outcome = "posted" =>
          last.selected[1] \in Posted']_vars

(***************************************************************************)
(* main.py: the follow tracker bot, one athlete of check_and_tweet at a    *)
(* time.                                                                   *)
(***************************************************************************)

\* What config.get_athletes() returns.
athletes ==
    <<[name |-> "Kylian Mbapp^", twitter_handle |-> "@KMbappe",
       team |-> "Real Madrid"],
      [name |-> "Test Player", twitter_handle |-> "@testplayer"]>>

\* The accounts an athlete may follow, by id, as get_user(id) describes
\* them.
Accounts ==
    [id \in {"1", "2", "3"} |->
        CASE id = "1" -> [name |-> "Lionel Messi", username |-> "leomessi",
                          followers_count |-> Num(500000000)]
          [] id = "2" -> [name |-> "Unknown Guy", username |-> "guy",
                          followers_count |-> Num(50)]
          [] id = "3" -> [name |-> "FC Barcelona", username |-> "FCBarcelona",
                          followers_count |-> Num(2000000)]]

Ids == DOMAIN Accounts

\* The orders in which a set of ids is iterated.
IterationOrders == {<<"1", "2", "3">>, <<"3", "2", "1">>}

\* The thresholds the environment may set.
MinDramaScores == {default_MIN_DRAMA_SCORE, 61}

\* The sets of ids an athlete may be following when asked.
Followings(ath) ==
    IF ath["name"] = "Test Player" THEN {{}, {"2"}}
    ELSE {{}, {"1"}, {"2", "3"}, Ids}

\* The ids whose lookup may answer with a null follower count.
NullCounts == {"2"}

\* The gaps between two runs of check_and_tweet that the model follows, in
\* hours: the runs in between found no change.
CheckGaps == {23, 24}

\* What the API may do during one check_athlete of ath: the lookups that
\* fail (lost) and those that answer with a null follower count (odd) are
\* among the ids that changed, and the order of iteration is drawn where a
\* set of two ids is iterated.
TwitterAnswers(ath) ==
    IF ~client THEN {[sim |-> s] : s \in {"none", "follow", "unfollow"}}
    ELSE LET previous == Get(following_cache, ath["twitter_handle"], {})
         IN  {[user |-> u] : u \in {"not_found", "rate_limited", "error"}}
             \cup UNION {
                 [user : {"found"},
                  following : {f},
                  lost : SUBSET ((f \ previous) \cup (previous \ f)),
                  odd : SUBSET (((f \ previous) \cup (previous \ f))
                                   \cap NullCounts),
                  order : IF Cardinality(f \ previous) > 1
                             \/ Cardinality(previous \ f) > 1
                          THEN IterationOrders
                          ELSE {CHOOSE o \in IterationOrders : o[1] = "1"}] :
                 f \in Followings(ath)}

\* The answers to get_user(id) when the lookups of lost fail and those of
\* odd come with a null follower count.
Lookups(lost, odd) ==
    [id \in Ids |->
        IF id \in lost THEN None
        ELSE IF id \in odd
        THEN <<[name |-> Accounts[id].name,
                username |-> Accounts[id].username,
                followers_count |-> None]>>
        ELSE <<Accounts[id]>>]

\* What the post_tweet calls of a check may return: nothing is drawn for a
\* bot that does not post.
PostResults ==
    IF AUTO_TWEET THEN {post_tweet(client, o) : o \in PostOutcomes}
    ELSE {FALSE}

TrackInit ==
    /\ bot = "tracker"
    /\ AUTO_TWEET \in BOOLEAN
    /\ MIN_DRAMA_SCORE \in MinDramaScores
    /\ client \in BOOLEAN
    /\ following_cache = <<>>
    /\ next_athlete = 0
    /\ checked = NoCheck
    /\ changes_table = <<>>
    /\ now = 0
    /\ utc_offset \in UtcOffsets
    /\ lookup = NoLookup
    /\ loop = "running"
    /\ ScoreIdle /\ RenderIdle /\ FeedIdle

\* The record of a check: the athlete, what check_athlete returned and
\* what check_and_tweet did with each change.
Checked(index, answer, res, log) ==
    IF res.result = "checked"
    THEN [athlete |-> index, result |-> res.result, changes |-> res.changes,
          log |-> log, previous |-> res.previous, current |-> res.current,
          lost |-> answer.lost, odd |-> answer.odd]
    ELSE [athlete |-> index, result |-> res.result, changes |-> res.changes,
          log |-> log]

\* The body of "for athlete in athletes" of check_and_tweet for the next
\* athlete.
CheckAthlete ==
    /\ bot = "tracker"
    /\ loop = "running"
    /\ next_athlete < Len(athletes)
    /\ \E ath \in {athletes[next_athlete + 1]} :
       \E answer \in TwitterAnswers(ath) :
       \E res \in {check_athlete(
                       ath, following_cache, client,
                       IF client /\ answer.user = "found"
                       THEN [user |-> answer.user,
                             following |-> answer.following,
                             users |-> Lookups(answer.lost, answer.odd),
                             order |-> answer.order]
                       ELSE answer)} :
       \E successes \in [1..Len(res.changes) -> PostResults] :
       \E log \in {process_changes(res.changes, ath, successes)} :
          /\ following_cache' = res.cache
          /\ checked' = Checked(next_athlete + 1, answer, res, log)
          /\ changes_table' = saved_changes(changes_table, log)
          /\ next_athlete' = next_athlete + 1
          /\ loop' = run_loop(leaves_tick(raised_in_check(log)))
    /\ UNCHANGED <<now, utc_offset, lookup>>
    /\ UNCHANGED <<configVars, scoreVars, renderVars, feedVars>>

\* check_and_tweet has gone through the athletes; the schedule starts the
\* next run that finds a change, some hours later.
EndCheck ==
    /\ bot = "tracker"
    /\ loop = "running"
    /\ next_athlete = Len(athletes)
    /\ next_athlete' = 0
    /\ \E gap \in CheckGaps :
          /\ now + gap <= MaxHour
          /\ now' = now + gap
    /\ UNCHANGED <<following_cache, checked, changes_table, utc_offset,
                   lookup>>
    /\ UNCHANGED <<runVars, scoreVars, renderVars, feedVars>>

TrackNext == CheckAthlete \/ EndCheck \/ Interrupt

SpecTrack == TrackInit /\ [][TrackNext]_vars

\* post_tweet was called for entry e of the log of a check.
Posting(e) == e.outcome \in {"posted", "post_failed"}

\* C8: in the follow tracker bot post_tweet is called for a change only if
\* its drama score is >= MIN_DRAMA_SCORE and AUTO_TWEET is true: no change
\* that scores below the threshold is published, and with AUTO_TWEET false
\* nothing is published.
C8_PostOnlyAboveThreshold ==
    checked.result # "none" =>
        \A i \in 1..Len(checked.log) :
            Posting(checked.log[i]) =>
                /\ AUTO_TWEET
                /\ checked.log[i].change["drama_score"] >= MIN_DRAMA_SCORE

\* C8 witness: of the changes of one check, one scored below the threshold
\* and was not posted and another one was posted.
C8_Witness ==
    /\ checked.result = "checked"
    /\ \E i, j \in 1..Len(checked.log) :
          /\ checked.log[i].outcome = "too_low"
          /\ checked.log[i].change["drama_score"] < MIN_DRAMA_SCORE
          /\ checked.log[j].outcome = "posted"

\* The cache entry of the athlete of the latest check.
Baseline == following_cache[athletes[checked.athlete]["twitter_handle"]]

\* C9: the first check of an athlete, with no cached following set or with
\* an empty one, emits no follow and no unfollow candidate whatever the
\* current following set read from the API is, and stores that set as the
\* baseline.
C9_FirstCheckIsBaseline ==
    checked.result = "checked" /\ checked.previous = {} =>
        /\ checked.changes = <<>>
        /\ checked.log = <<>>
        /\ Baseline = checked.current

\* C9 witness: a first check has read a following set of three ids and
\* left it in the cache.
C9_Witness ==
    /\ checked.result = "checked"
    /\ checked.previous = {}
    /\ checked.current = Ids
    /\ Baseline = Ids

\* The changes of the latest check with the given type and target id.
Candidates(type, id) ==
    {i \in 1..Len(checked.changes) :
        /\ checked.changes[i]["type"] = type
        /\ checked.changes[i]["target_handle"]
               = "@" \o Accounts[id].username}

\* C10: for a non-empty previous snapshot and with every user lookup
\* succeeding, check_athlete emits exactly one follow candidate for each id
\* in current - previous, exactly one unfollow candidate for each id in
\* previous - current and no other candidate; equal snapshots give none.
C10_ExactDifference ==
    checked.result = "checked" /\ checked.previous # {} /\ checked.lost = {}
    => /\ \A id \in Ids :
              /\ Cardinality(Candidates("follow", id)) =
                     (IF id \in checked.current \ checked.previous
                      THEN 1 ELSE 0)
              /\ Cardinality(Candidates("unfollow", id)) =
                     (IF id \in checked.previous \ checked.current
                      THEN 1 ELSE 0)
       /\ Len(checked.changes) =
              Cardinality(checked.current \ checked.previous)
              + Cardinality(checked.previous \ checked.current)
       /\ checked.previous = checked.current => checked.changes = <<>>

\* C10 witness: a check against a non-empty snapshot found two follows and
\* an unfollow, every lookup answered.
C10_Witness ==
    /\ checked.result = "checked"
    /\ checked.lost = {}
    /\ checked.previous # {}
    /\ Cardinality(checked.current \ checked.previous) = 2
    /\ Cardinality(checked.previous \ checked.current) = 1
    /\ Len(checked.changes) = 3

\* C33: after every check_athlete that reaches its end, the cache entry of
\* the athlete is the following set read in that check, whether changes
\* were found or not and whether a lookup of a changed id failed or not;
\* so a check that reads the set the cache holds reports no change, also
\* for an id whose lookup failed in the check before.
C33_CacheIsCurrent ==
    [][next_athlete' = next_athlete + 1 /\ checked'.result = "checked" =>
          LET key == athletes[checked'.athlete]["twitter_handle"]
          IN  /\ following_cache'[key] = checked'.current
              /\ checked'.previous = Get(following_cache, key, {})
              /\ checked'.current = checked'.previous =>
                     checked'.changes = <<>>]_vars

\* C33 witness: a check against a non-empty snapshot in which the lookup of
\* a changed id failed, so that it reported fewer changes than ids changed,
\* has left the set it read in the cache.
C33_Witness ==
    /\ checked.result = "checked"
    /\ checked.previous # {}
    /\ checked.lost # {}
    /\ Len(checked.changes) <
           Cardinality(checked.current \ checked.previous)
           + Cardinality(checked.previous \ checked.current)
    /\ Baseline = checked.current
    /\ Baseline # checked.previous

\* C36: when the check of an athlete meets a rate limit, the running
\* check_and_tweet ends early: no athlete that comes after the rate-limited
\* one is checked in the same run.
C36_RateLimitEndsTick ==
    [][~(/\ next_athlete > 0
         /\ checked.result = "rate_limited"
         /\ next_athlete' = next_athlete + 1)]_vars

\* C11: in the follow tracker bot a change whose (type, athlete_handle,
\* target_handle) already has a record in the store within the dedup window
\* of 24 hours is not published again: no check of an athlete calls
\* post_tweet for a change that check_duplicate reports for the table as it
\* was before the check.
C11_DuplicateNotPublished ==
    [][next_athlete' = next_athlete + 1 =>
          \A i \in 1..Len(checked'.log) :
              Posting(checked'.log[i]) =>
                  ~check_duplicate(changes_table, checked'.log[i].change,
                                   default_hours)]_vars

\* C18: in a check of the follow tracker bot an exception while one change
\* is processed does not keep the later changes of the same athlete from
\* being processed: each change check_athlete returned has its entry in the
\* log of the check, and after an entry that raised come the entries of the
\* changes that follow it.
C18_LaterChangesProcessed ==
    checked.result # "none" =>
        /\ Len(checked.log) = Len(checked.changes)
        /\ \A i \in 1..Len(checked.log) :
               checked.log[i].outcome = "raised" =>
                   \A j \in (i + 1)..Len(checked.changes) :
                       j \in DOMAIN checked.log

(***************************************************************************)
(* The three bots together: each behaviour is one bot, its ticks and the   *)
(* interrupt.                                                              *)
(***************************************************************************)

BotsInit == FeedInit \/ TrackInit

BotsNext ==
    \/ HistoryTick
    \/ NewsTick
    \/ Advance
    \/ CheckAthlete
    \/ EndCheck
    \/ Interrupt

SpecBots == BotsInit /\ [][BotsNext]_vars

\* The step is a tick, or the check of an athlete inside one, whose body
\* raised an exception.
TickRaised ==
    \/ /\ bot \in {"history", "news"}
       /\ IsTick
       /\ raised_in_tick(last') # "none"
    \/ /\ bot = "tracker"
       /\ next_athlete' = next_athlete + 1
       /\ raised_in_check(checked'.log) # "none"

\* C19: in all three bots an error raised inside a tick is caught inside the
\* tick and the scheduling loop is still running after it, ready for the
\* next tick; the loop never ends because a tick raised, and the only step
\* that ends it is the interrupt, which is no tick.
C19_LoopEndsOnlyOnInterrupt ==
    [][/\ TickRaised => loop' = "running"
       /\ loop' # "fatal"
       /\ loop' # loop =>
              /\ loop = "running" /\ loop' = "interrupted"
              /\ UNCHANGED <<trackVars, feedVars>>]_vars

\* C19 witness: the loop of the news bot is running, a tick of it has ended
\* in the except clause and a later tick has published.
C19_Witness ==
    /\ bot = "news"
    /\ loop = "running"
    /\ db_faults >= 1
    /\ last.outcome = "posted"

\* C34: in a tick of every bot nothing is recorded for a candidate before
\* post_tweet has confirmed its publish: the history bot and the news bot
\* hold in their posted set only identities post_tweet returned True for,
\* and the follow tracker bot saves with save_change only the changes whose
\* post_tweet returned True.
C34_RecordAfterPublish ==
    /\ bot \in {"history", "news"} => Posted \subseteq confirmed
    /\ bot = "tracker" /\ checked.result # "none" =>
           \A i \in 1..Len(checked.log) :
               checked.log[i].saved => checked.log[i].outcome = "posted"

(***************************************************************************)
(* database.py: the changes table on its own, with changes as the tracker  *)
(* builds them saved and looked up at any hour.                            *)
(***************************************************************************)

\* The windows check_duplicate is called with.
Windows == {1, default_hours}

\* The changes saved and looked up: what the tracker reports of an athlete
\* and the demo account at the current hour.
StoreChanges ==
    {simulate_changes(athletes[i], type)[1] :
        i \in 1..Len(athletes), type \in {"follow", "unfollow"}}

\* The number of rows the table is followed up to.
MaxRows == 1

StoreInit ==
    /\ changes_table = <<>>
    /\ now = 0
    /\ utc_offset \in UtcOffsets
    /\ lookup = NoLookup
    /\ following_cache = <<>> /\ next_athlete = 0 /\ checked = NoCheck
    /\ ConfigIdle /\ ScoreIdle /\ RenderIdle /\ FeedIdle

\* db.save_change(change) with a change built now.
SaveChange ==
    /\ Len(changes_table) < MaxRows
    /\ \E chg \in StoreChanges :
          changes_table' = save_change(changes_table, chg)
    /\ lookup' = NoLookup
    /\ UNCHANGED <<now, utc_offset, following_cache, next_athlete, checked>>
    /\ UNCHANGED <<runVars, scoreVars, renderVars, feedVars>>

\* An hour passes.
Elapse ==
    /\ now < MaxHour
    /\ now' = now + 1
    /\ lookup' = NoLookup
    /\ UNCHANGED <<changes_table, utc_offset, following_cache, next_athlete,
                   checked>>
    /\ UNCHANGED <<runVars, scoreVars, renderVars, feedVars>>

\* db.check_duplicate(change, hours)
CheckDuplicate ==
    /\ \E chg \in StoreChanges, hours \in Windows :
          lookup' = [called |-> TRUE, change |-> chg, hours |-> hours,
                     result |-> check_duplicate(changes_table, chg, hours)]
    /\ UNCHANGED <<changes_table, now, utc_offset, following_cache,
                   next_athlete, checked>>
    /\ UNCHANGED <<runVars, scoreVars, renderVars, feedVars>>

StoreNext == SaveChange \/ Elapse \/ CheckDuplicate

SpecStore == StoreInit /\ [][StoreNext]_vars

\* A row of the table has the handles and the type of chg and was saved
\* less than hours hours ago.
SavedWithin(chg, hours) ==
    \E i \in 1..Len(changes_table) :
        LET row == changes_table[i]
        IN  /\ row.athlete_handle = chg["athlete_handle"]
            /\ row.target_handle = chg["target_handle"]
            /\ row.type = chg["type"]
            /\ now - (row.timestamp - utc_offset) < hours

\* C12: check_duplicate(change, hours=w) returns true exactly when a saved
\* change with the same (athlete_handle, target_handle, type) was saved, at
\* the tracker's datetime.now(), less than w hours before the current time
\* of the store; for a change saved 2 hours ago it is true with w = 24 and
\* false with w = 1.
C12_WindowQuery ==
    lookup.called =>
        lookup.result = SavedWithin(lookup.change, lookup.hours)

(***************************************************************************)
(* history_fetcher.py: select_interesting_event applied to one list of     *)
(* events; the list is drawn in SelectInit, the random draw and the answer *)
(* of get_event_details in the call.                                       *)
(***************************************************************************)

\* Events of one day, in the order of the API answer: the scores tie
\* (events 1 and 2, 10 to 14), the highest ones come last, and event 16
\* names eight priority keywords.
Catalog ==
    <<[type |-> "event", year |-> Num(1071), text |-> "Malazgirt Sava^^"],
      [type |-> "event", year |-> Num(1200), text |-> "Kral tahttan indi"],
      [type |-> "event", year |-> Num(1815), text |-> "Napoleon s^rg^nde"],
      [type |-> "event", year |-> Num(1933), text |-> "Hitler ba^bakan"],
      [type |-> "event", year |-> Num(-44), text |-> "Sezar'a suikast"],
      [type |-> "death", year |-> Unknown, text |-> "Bir ^air"],
      [type |-> "birth", year |-> Num(1950), text |-> "Bir ressam"],
      [type |-> "birth", year |-> Num(1700), text |-> "Bir besteci"],
      [type |-> "birth", year |-> Num(2005), text |-> "Bir futbolcu"],
      [type |-> "event", year |-> Num(1600), text |-> "Konsey topland^"],
      [type |-> "event", year |-> Num(1650), text |-> "Antla^ma imzaland^"],
      [type |-> "event", year |-> Num(1750), text |-> "Saray tamamland^"],
      [type |-> "event", year |-> Num(1800), text |-> "Okul kuruldu"],
      [type |-> "event", year |-> Num(1850), text |-> "Gazete ^^kt^"],
      [type |-> "death", year |-> Num(1938), text |-> "Atat^rk ^ld^"],
      [type |-> "death", year |-> Num(1920),
       text |-> "Sultan ve Kral: suikast, isyan, darbe, idam, infaz, katliam"],
      [type |-> "event", year |-> Num(1453), text |-> "Fatih ku^atmay^ bitirdi"]>>

Reversed(seq) == [i \in 1..Len(seq) |-> seq[Len(seq) + 1 - i]]

\* The lists handed to select_interesting_event: the empty one and the
\* stretches of the catalog, forwards and backwards.
EventLists ==
    {<<>>} \cup
    UNION {{SubSeq(Catalog, a, b), Reversed(SubSeq(Catalog, a, b))} :
              a \in 1..Len(Catalog), b \in 1..Len(Catalog)}

\* The largest draw of random.choice.
MaxSelectDraw == 15

\* What get_event_details may return.
Details == {"", "Bir ^zet"}

SelectInit ==
    /\ job \in [kind : {"select"}, events : EventLists]
    /\ draws = <<>>
    /\ rendered = NotRendered
    /\ ScoreIdle /\ ConfigIdle /\ TrackIdle /\ FeedIdle

\* fetcher.select_interesting_event(events): the result, with the scores
\* of scored_events before the sort.
SelectCall ==
    /\ rendered = NotRendered
    /\ job.kind = "select"
    /\ \E scores \in {[i \in 1..Len(job.events) |->
                           history_score(job.events[i])]} :
       \E top \in {top_15(job.events)} :
       \E r \in 0..MaxSelectDraw, detailed \in Details :
          /\ draws' = [choice |-> r, detailed |-> detailed]
          /\ rendered' =
                 [stage |-> "selected", scores |-> scores,
                  value |-> IF Len(job.events) = 0 THEN <<>>
                            ELSE <<select_from(top, r, detailed)>>]
    /\ UNCHANGED <<job, scoreVars, runVars, trackVars, feedVars>>

SelectNext == SelectCall

SpecSelect == SelectInit /\ [][SelectNext]_vars

\* The event select_interesting_event returned, as it was in the list.
Returned ==
    [k \in DOMAIN rendered.value[1] \ {"detailed_summary"} |->
        rendered.value[1][k]]

\* The position of event i of the list after a stable sort by score, the
\* highest score first.
Rank(i) ==
    1 + Cardinality({j \in 1..Len(job.events) :
                        \/ rendered.scores[j] > rendered.scores[i]
                        \/ /\ rendered.scores[j] = rendered.scores[i]
                           /\ j < i})

\* C13: select_interesting_event on a non-empty list returns one of the
\* input events that is among the first min(15, n) of the list sorted by
\* score, highest first, input order kept among equal scores, so fewer than
\* 15 events score higher than the returned one; with one input event it
\* returns that event; on an empty list it returns None.
C13_SelectFromTop15 ==
    rendered.stage = "selected" =>
        LET n == Len(job.events)
        IN  /\ n = 0 <=> rendered.value = <<>>
            /\ n > 0 =>
                  \E i \in 1..n :
                      /\ job.events[i] = Returned
                      /\ Rank(i) <= Min(15, n)
                      /\ Cardinality({j \in 1..n : rendered.scores[j]
                                          > rendered.scores[i]}) < 15
            /\ n = 1 => Returned = job.events[1]

\* C13 witness: of seventeen events the last of the top fifteen was
\* returned, with its summary attached.
C13_Witness ==
    /\ rendered.stage = "selected"
    /\ Len(job.events) = 17
    /\ \E i \in 1..17 : job.events[i] = Returned /\ Rank(i) = 15
    /\ "detailed_summary" \in DOMAIN rendered.value[1]

\* C20: the importance score select_interesting_event computes for each
\* event is an integer in 0..100, whatever the text, the type and the year
\* are.
C20_ImportanceInRange ==
    rendered.stage = "selected" =>
        \A i \in 1..Len(rendered.scores) : rendered.scores[i] \in 0..100

(***************************************************************************)
(* history_fetcher.py: the importance score of one event; the event is     *)
(* drawn in ImportanceInit.                                                *)
(***************************************************************************)

\* The years of the events scored: those around the ends of each era range,
\* a year before the common era, and the string 'Unknown'.
EventYears ==
    {Unknown} \cup
    {Num(y) : y \in {-44, 0, 499, 500, 1500, 1501, 1899, 1900, 1913, 1914,
                     1944, 1945, 1946, 2000, 2001}}

\* The texts of the events scored: no priority keyword, a war keyword, a
\* war and a death keyword, a name.
EventTexts ==
    {"Okul kuruldu", "Sava^ ba^lad^", "Sava^ta komutan ^ld^",
     "Napoleon s^rg^nde"}

ImportanceInit ==
    /\ job \in [kind : {"importance"},
                event : [type : {"event", "birth", "death"},
                         year : EventYears, text : EventTexts]]
    /\ draws = <<>>
    /\ rendered = NotRendered
    /\ ScoreIdle /\ ConfigIdle /\ TrackIdle /\ FeedIdle

\* One round of "for event in events" of select_interesting_event: the
\* score of the event and what went into it.
ScoreEvent ==
    /\ rendered = NotRendered
    /\ job.kind = "importance"
    /\ rendered' =
           [stage |-> "scored",
            hits |-> Cardinality(keyword_hits(Lower(job.event.text))),
            type_bonus |-> type_bonus(job.event.type),
            score |-> history_score(job.event)]
    /\ UNCHANGED <<job, draws, scoreVars, runVars, trackVars, feedVars>>

ImportanceNext == ScoreEvent

SpecImportance == ImportanceInit /\ [][ImportanceNext]_vars

\* The era ranges in the order of the claim: from, to and bonus, the second
\* range having no lower end.
EraTable ==
    <<[from |-> <<1914>>, to |-> 1945, bonus |-> 20],
      [from |-> <<>>, to |-> 499, bonus |-> 15],
      [from |-> <<500>>, to |-> 1500, bonus |-> 10],
      [from |-> <<1900>>, to |-> 2000, bonus |-> 8]>>

\* The ranges of the table a year lies in.
Eras(y) ==
    {k \in 1..Len(EraTable) :
        /\ EraTable[k].from # <<>> => EraTable[k].from[1] <= y
        /\ y <= EraTable[k].to}

\* What the score of the event holds besides the keyword hits and the type
\* bonus.
EraPart == rendered.score - 10 * rendered.hits - rendered.type_bonus

\* C21: the era bonus in the importance score of an event is that of the
\* first range of the table its year lies in, and 0 for a year in no range
\* and for a year that is no number, which raises no error: at most one era
\* bonus is added, a year in 1914-1945 gets 20, and an event of 1944 whose
\* text has a war keyword and a death keyword scores at least 40 before the
\* type bonus.
C21_EraFirstMatch ==
    rendered.stage = "scored" =>
        LET year == job.event.year
        IN  /\ year = Unknown => EraPart = 0
            /\ year # Unknown =>
                   /\ Eras(year[1]) = {} => EraPart = 0
                   /\ Eras(year[1]) # {} =>
                          EraPart = EraTable[CHOOSE k \in Eras(year[1]) :
                                       \A j \in Eras(year[1]) : k <= j].bonus
                   /\ year[1] \in 1914..1945 => EraPart = 20
                   /\ year[1] = 1944 /\ rendered.hits >= 2 =>
                          rendered.score - rendered.type_bonus >= 40

\* C21 witness: a birth of 1944, a year of two ranges, with a war keyword
\* and a death keyword in its text has been scored 40.
C21_Witness ==
    /\ rendered.stage = "scored"
    /\ job.event.year = Num(1944)
    /\ Cardinality(Eras(1944)) = 2
    /\ job.event.type = "birth"
    /\ rendered.hits = 2
    /\ rendered.score = 40

(***************************************************************************)
(* tracker.py: check_athlete applied to a pair of snapshots, in both       *)
(* directions; every lookup of a user answers.                             *)
(***************************************************************************)

DetectInit ==
    /\ job \in [kind : {"detect"}, A : SUBSET Ids, B : SUBSET Ids,
                order : IterationOrders]
    /\ draws = <<>>
    /\ rendered = NotRendered
    /\ ScoreIdle /\ ConfigIdle /\ TrackIdle /\ FeedIdle

\* check_athlete of the first athlete with previous in the cache and
\* current read from the API.
Detect(previous, current, order) ==
    check_athlete(athletes[1],
                  [k \in {athletes[1]["twitter_handle"]} |-> previous],
                  TRUE,
                  [user |-> "found", following |-> current,
                   users |-> Lookups({}, {}), order |-> order])

\* The two checks: from A to B and from B to A.
DetectCall ==
    /\ rendered = NotRendered
    /\ job.kind = "detect"
    /\ rendered' = [stage |-> "detected",
                    forward |-> Detect(job.A, job.B, job.order).changes,
                    backward |-> Detect(job.B, job.A, job.order).changes]
    /\ UNCHANGED <<job, draws, scoreVars, runVars, trackVars, feedVars>>

DetectNext == DetectCall

SpecDetect == DetectInit /\ [][DetectNext]_vars

\* The ids of the accounts a list of changes reports with the given type.
Reported(changes, type) ==
    {id \in Ids : \E i \in 1..Len(changes) :
        /\ changes[i]["type"] = type
        /\ changes[i]["target_handle"] = "@" \o Accounts[id].username}

\* Swapping the snapshots swaps the two results.
Swapped ==
    /\ Reported(rendered.backward, "follow")
           = Reported(rendered.forward, "unfollow")
    /\ Reported(rendered.backward, "unfollow")
           = Reported(rendered.forward, "follow")

\* C23 as stated: change detection is antisymmetric for every pair of
\* snapshots A and B, the empty set included: what the check from A to B
\* reports followed the check from B to A reports unfollowed, and the other
\* way round.
C23_Antisymmetric == rendered.stage = "detected" => Swapped

\* C23 amended: change detection is antisymmetric for every pair of
\* non-empty snapshots; a check whose previous snapshot is empty reports
\* nothing, so against an empty snapshot the results are swapped only when
\* both are empty.
C23_AntisymmetricNonEmpty ==
    rendered.stage = "detected" =>
        /\ job.A # {} /\ job.B # {} => Swapped
        /\ job.A = {} => rendered.forward = <<>>
        /\ job.B = {} => rendered.backward = <<>>
        /\ job.A = {} /\ job.B # {} =>
               Reported(rendered.backward, "unfollow") = job.B

\* C23 witness: from {1} to {2, 3} the check reported two follows and an
\* unfollow, and back two unfollows and a follow.
C23_Witness ==
    /\ rendered.stage = "detected"
    /\ job.A = {"1"} /\ job.B = {"2", "3"}
    /\ Reported(rendered.forward, "follow") = {"2", "3"}
    /\ Reported(rendered.forward, "unfollow") = {"1"}
    /\ Reported(rendered.backward, "unfollow") = {"2", "3"}
    /\ Len(rendered.backward) = 3

(***************************************************************************)
(* The recorders called once or several times with the same argument:      *)
(* save_change of the store, mark_as_posted of the two fetchers, and the   *)
(* queries that read what they wrote.                                      *)
(***************************************************************************)

\* How often a recorder is called with the same argument.
MaxRecordings == 2

RECURSIVE saved_times(_, _, _)
\* The table after n calls of save_change(chg).
saved_times(table, chg, n) ==
    IF n = 0 THEN table
    ELSE save_change(saved_times(table, chg, n - 1), chg)

RECURSIVE marked_times(_, _, _)
\* The posted set after n calls of mark_as_posted for id.
marked_times(posted, id, n) ==
    IF n = 0 THEN posted ELSE marked(marked_times(posted, id, n - 1), id)

RecordInit ==
    /\ bot \in {"tracker", "history", "news"}
    /\ AUTO_TWEET = FALSE /\ MIN_DRAMA_SCORE = 0 /\ client = FALSE
    /\ loop = "none"
    /\ changes_table = <<>>
    /\ now = 0
    /\ utc_offset \in IF bot = "tracker" THEN UtcOffsets ELSE {0}
    /\ lookup = NoLookup
    /\ following_cache = <<>> /\ next_athlete = 0 /\ checked = NoCheck
    /\ clock = IF bot = "tracker" THEN <<>> ELSE [date |-> 1, minute |-> 0]
    /\ daily_tweet_count = 0 /\ last_reset = 0
    /\ posted_events = {} /\ posted_articles = {} /\ tweets = 0
    /\ db_faults = 0 /\ last = NoTick /\ confirmed = {}
    /\ published_on = <<>> /\ restarts = 0
    /\ ScoreIdle /\ RenderIdle

\* db.save_change(change), once or several times with the same dict, on an
\* empty table.
RecordChange ==
    /\ bot = "tracker"
    /\ changes_table = <<>>
    /\ \E chg \in StoreChanges, n \in 1..MaxRecordings :
          /\ changes_table' = saved_times(changes_table, chg, n)
          /\ draws' = <<[id |-> chg, times |-> n]>>
    /\ lookup' = NoLookup
    /\ UNCHANGED <<now, utc_offset, following_cache, next_athlete, checked>>
    /\ UNCHANGED <<job, rendered, runVars, scoreVars, feedVars>>

\* Hours pass before the queries.
RecordElapse ==
    /\ bot = "tracker"
    /\ Elapse

\* db.check_duplicate(change, hours) after the recordings
RecordCheckDuplicate ==
    /\ bot = "tracker"
    /\ CheckDuplicate

\* db.get_stats()
GetStats ==
    /\ bot = "tracker"
    /\ lookup' = [called |-> TRUE, stats |-> get_stats(changes_table)]
    /\ UNCHANGED <<changes_table, now, utc_offset, following_cache,
                   next_athlete, checked>>
    /\ UNCHANGED <<runVars, scoreVars, renderVars, feedVars>>

\* What a fetch of the bot returns with the given posted set, for every
\* answer of its source.
FetchedWith(posted) ==
    IF bot = "history"
    THEN UNION {EventIds(fetch_today_events(response, posted)) :
                   response \in WikipediaAnswers(clock.date)}
    ELSE UNION {ArticleIds(fetch_latest_news(web, posted, 10)) :
                   web \in NewsWebs}

\* mark_as_posted, once or several times, for an item a fetch returned.
MarkPosted ==
    /\ bot \in {"history", "news"}
    /\ Len(draws) < 2
    /\ \E id \in FetchedWith(Posted), n \in 1..MaxRecordings :
          /\ draws' = Append(draws, [id |-> id, times |-> n])
          /\ IF bot = "history"
             THEN /\ posted_events' = marked_times(posted_events, id, n)
                  /\ UNCHANGED posted_articles
             ELSE /\ posted_articles' = marked_times(posted_articles, id, n)
                  /\ UNCHANGED posted_events
    /\ rendered' = NotRendered
    /\ UNCHANGED <<clock, daily_tweet_count, last_reset, tweets, db_faults,
                   last, confirmed, published_on, restarts>>
    /\ UNCHANGED <<job, runVars, scoreVars, trackVars>>

\* fetch_today_events() or fetch_latest_news() after the recordings
FetchAfter ==
    /\ bot \in {"history", "news"}
    /\ rendered' = [stage |-> "fetched", ids |-> FetchedWith(Posted)]
    /\ UNCHANGED <<job, draws, runVars, scoreVars, trackVars, feedVars>>

RecordNext ==
    \/ RecordChange
    \/ RecordElapse
    \/ RecordCheckDuplicate
    \/ GetStats
    \/ MarkPosted
    \/ FetchAfter

SpecRecord == RecordInit /\ [][RecordNext]_vars

RECURSIVE RecordedOnce(_)
\* The table with each row kept once: what it would hold had every change
\* been saved once.
RecordedOnce(table) ==
    IF table = <<>> THEN <<>>
    ELSE LET rest == RecordedOnce(SubSeq(table, 1, Len(table) - 1))
             row == table[Len(table)]
         IN  IF \E i \in 1..Len(rest) : rest[i] = row THEN rest
             ELSE Append(rest, row)

\* The posted set had every identity been marked once.
MarkedOnce == {draws[i].id : i \in 1..Len(draws)}

\* C24: recording is idempotent for duplicate detection: however often the
\* same change was saved and the same identity marked as posted, a later
\* check_duplicate answers what it answers with the change saved once, a
\* later fetch returns what it returns with the identity marked once, and
\* every recording went through without an error.
C24_RecordingIdempotent ==
    /\ bot = "tracker" /\ lookup.called /\ "result" \in DOMAIN lookup =>
           lookup.result = check_duplicate(RecordedOnce(changes_table),
                                           lookup.change, lookup.hours)
    /\ bot = "tracker" /\ draws # <<>> =>
           Len(changes_table) = draws[1].times
    /\ bot \in {"history", "news"} =>
           /\ Posted = MarkedOnce
           /\ rendered.stage = "fetched" =>
                  rendered.ids = FetchedWith(MarkedOnce)

\* C24 witness: a change saved twice is reported as a duplicate two hours
\* later.
C24_Witness ==
    /\ bot = "tracker"
    /\ utc_offset = 0
    /\ Len(changes_table) = 2
    /\ changes_table[1] = changes_table[2]
    /\ now = changes_table[1].timestamp + 2
    /\ lookup.called /\ "result" \in DOMAIN lookup
    /\ lookup.result
    /\ lookup.hours = default_hours

\* C25: saving the same change twice does not count twice: get_stats
\* reports the total_changes, follows and unfollows it reports with the
\* change saved once.
C25_StatsCountOnce ==
    bot = "tracker" /\ lookup.called /\ "stats" \in DOMAIN lookup =>
        lookup.stats = get_stats(RecordedOnce(changes_table))

(***************************************************************************)
(* rss_reader.py: fetch_latest_news applied to feeds of which any subset   *)
(* raises                                                                  *)
(***************************************************************************)

\* What each feed answers, one by one: reading it raises, it has no entry,
\* or it has entries (six for the first feed, more than the five read).
PartialWebs ==
    [1..5 -> {"error", "empty", "entries"}]

WebOf(answers) ==
    [f \in 1..5 |->
        CASE answers[f] = "error" -> [status |-> "error"]
          [] answers[f] = "empty" -> [status |-> "ok", entries |-> <<>>]
          [] OTHER -> [status |-> "ok",
                       entries |-> FeedEntries(f, IF f = 1 THEN 6 ELSE 2)]]

CollectInit ==
    /\ job \in [kind : {"collect"},
                answers : PartialWebs,
                posted : {{}, {"urn:1/1"}, {"https://feed/2/2", "urn:3/1"}},
                max_articles : {3, 20}]
    /\ draws = <<>>
    /\ rendered = NotRendered
    /\ ScoreIdle /\ ConfigIdle /\ TrackIdle /\ FeedIdle

\* reader.fetch_latest_news(max_articles) with posted_articles = job.posted
Collect ==
    /\ rendered = NotRendered
    /\ job.kind = "collect"
    /\ rendered' = [stage |-> "collected",
                    articles |-> fetch_latest_news(WebOf(job.answers),
                                                   job.posted,
                                                   job.max_articles)]
    /\ UNCHANGED <<job, draws, scoreVars, runVars, trackVars, feedVars>>

CollectNext == Collect

SpecCollect == CollectInit /\ [][CollectNext]_vars

\* The feeds that raised, and the feeds that answered.
Failing == {f \in 1..5 : job.answers[f] = "error"}
Answering == (1..5) \ Failing

\* The articles the answering feeds offer: of each, the first five entries
\* that are not posted yet.
Offered ==
    UNION {{rss_article(WebOf(job.answers)[f].entries[i], rss_feeds[f]) :
               i \in 1..Min(5, Len(WebOf(job.answers)[f].entries))} :
           f \in Answering}

Unposted == {a \in Offered : a["id"] \notin job.posted}

\* C29: whatever subset of the feeds raises, fetch_latest_news returns
\* articles of the other feeds only, each once, and as many of them as
\* there are, up to max_articles: all of them when they fit.
C29_PartialFailureTolerated ==
    rendered.stage = "collected" =>
        LET R == rendered.articles
        IN  /\ \A i \in 1..Len(R) : R[i] \in Unposted
            /\ \A i \in 1..Len(R) :
                   \A f \in Failing : R[i]["source"] # rss_feeds[f]
            /\ \A i, j \in 1..Len(R) : i # j => R[i] # R[j]
            /\ Len(R) = Min(job.max_articles, Cardinality(Unposted))

\* Two feeds raise, three answer, and every article of the three is
\* returned.
C29_Witness ==
    /\ rendered.stage = "collected"
    /\ Cardinality(Failing) = 2
    /\ job.answers[1] = "error" /\ job.answers[2] = "entries"
    /\ job.max_articles = 20
    /\ Len(rendered.articles) = Cardinality(Unposted)
    /\ Len(rendered.articles) >= 2

(***************************************************************************)
(* tweet_generator.py: post_tweet called a few times on one generator      *)
(***************************************************************************)

\* How many post_tweet calls are followed.
MaxPosts == 3

PostInit ==
    /\ job \in [kind : {"post"}, has_client : BOOLEAN]
    /\ draws = <<>>
    /\ rendered = [stage |-> "calls", calls |-> <<>>]
    /\ ScoreIdle /\ ConfigIdle /\ TrackIdle /\ FeedIdle

\* generator.post_tweet(text): what create_tweet did (it is not called
\* without a client) and the value the caller received.
PostCall ==
    /\ job.kind = "post"
    /\ Len(rendered.calls) < MaxPosts
    /\ \E did \in IF job.has_client THEN PostOutcomes ELSE {"not_called"} :
           rendered' =
               [rendered EXCEPT !.calls =
                   Append(@, [did |-> did,
                              returned |-> post_tweet(job.has_client, did)])]
    /\ UNCHANGED <<job, draws, scoreVars, runVars, trackVars, feedVars>>

PostNext == PostCall

SpecPost == PostInit /\ [][PostNext]_vars

\* The three kinds of failure of create_tweet.
FailureKinds == {"rate_limited", "forbidden", "error"}

\* C30: post_tweet hands its caller a different value for each of the three
\* kinds of failure: rate limited, forbidden, any other failure.
C30_FailuresDistinguishable ==
    rendered.stage = "calls" =>
        \A i, j \in 1..Len(rendered.calls) :
            /\ rendered.calls[i].did \in FailureKinds
            /\ rendered.calls[j].did \in FailureKinds
            /\ rendered.calls[i].did # rendered.calls[j].did
            => rendered.calls[i].returned # rendered.calls[j].returned

(***************************************************************************)
(* tracker.py: check_athlete of one athlete, tick after tick, with the     *)
(* request for the following list answering or raising; every lookup of a  *)
(* user answers.                                                           *)
(***************************************************************************)

\* How many checks of the athlete are followed.
MaxChecks == 3

OutageInit ==
    /\ job = [kind |-> "outage"]
    /\ draws = <<>>
    /\ rendered = NotRendered
    /\ ScoreIdle /\ ConfigIdle /\ TrackIdle /\ FeedIdle

\* tracker.check_athlete(athletes[0]) with a client: followed are the ids
\* the athlete follows at that time, request is how get_users_following
\* ends. draws keeps, check by check, what happened.
CheckWithRequest ==
    /\ job.kind = "outage"
    /\ Len(draws) < MaxChecks
    /\ \E followed \in SUBSET Ids, request \in {"answered", "raised"} :
       \E res \in {check_athlete(
                       athletes[1], following_cache, TRUE,
                       [user |-> "found",
                        following |-> get_following_list(request, followed),
                        users |-> Lookups({}, {}),
                        order |-> <<"1", "2", "3">>])} :
          /\ following_cache' = res.cache
          /\ draws' = Append(draws, [request |-> request,
                                     followed |-> followed,
                                     previous |-> res.previous,
                                     changes |-> res.changes,
                                     cache |-> res.cache])
    /\ UNCHANGED <<job, rendered, next_athlete, checked, storeVars>>
    /\ UNCHANGED <<scoreVars, runVars, feedVars>>

OutageNext == CheckWithRequest

SpecOutage == OutageInit /\ [][OutageNext]_vars

\* The ids the changes of a check report as unfollowed.
Unfollowed(changes) == Reported(changes, "unfollow")

\* C32: a check in which the request for the following list raises gives
\* no follow and no unfollow candidate and leaves the cached baseline as it
\* was, and neither that check nor the next one reports an unfollow of an
\* account the athlete still follows.
C32_FetchFailureIsSilent ==
    job = [kind |-> "outage"] =>
        \A i \in 1..Len(draws) :
            draws[i].request = "raised" =>
                /\ draws[i].changes = <<>>
                /\ Get(draws[i].cache, athletes[1]["twitter_handle"], {})
                       = draws[i].previous
                /\ \A k \in {i, i + 1} \cap (1..Len(draws)) :
                       Unfollowed(draws[k].changes) \cap draws[k].followed
                           = {}

====
